---- MODULE Spec2Model ----
(***************************************************************************)
(* Urban air-quality prediction backend: the prediction use case with its  *)
(* auto-fill orchestration (PredictAQIUseCase), the Google Places geocoder  *)
(* with its MongoDB geocode cache, the Google Air Quality client, the ML    *)
(* resource bundle (ModelResources) with its feature engineering, and the   *)
(* heatmap aggregations of the two Mongo repositories.                      *)
(*                                                                         *)
(* Optional values (Python None / a value) are <<>> and <<v>>.              *)
(* Eight specifications share the variables:                               *)
(*   Spec         one PredictAQIUseCase.execute call, step by step         *)
(*   SpecCache    the cache repository under a clock and the TTL monitor   *)
(*   SpecGeocode  geocode_location calls under the same clock and monitor  *)
(*   SpecConcurrent  concurrent geocode_location calls, step by step       *)
(*   SpecLoad     ModelResources.load over a changing model store          *)
(*   SpecStartup  the application startup followed by prediction requests   *)
(*   SpecFeatures base_feature_engineering and prepare_data_for_model       *)
(*   SpecHeatmap  the two heatmap aggregations over stored documents        *)
(***************************************************************************)
EXTENDS Integers, Sequences, FiniteSets, TLC

None == <<>>

Some(v) == <<v>>

\* ------------------------------------------------------------ bounds

MaxLive == 2

MaxTicks == 2

DefaultTtl == 86400

\* ------------------------------------------------------------ data

Pollutants == {"pm25", "pm10", "o3", "no2", "so2", "co"}

\* Values a caller supplies for a pollutant (0 is a supplied value, not None).
InVals == {0, 60}

\* Caller inputs: the pollutants in m are absent, the others carry v.
PollutantInput(m, v) == [p \in Pollutants |-> IF p \in m THEN None ELSE Some(v)]

\* The sets of absent pollutants tried: none, one, three, all six.
MissingSets == {{}, {"pm10"}, {"pm25", "pm10", "o3"}, Pollutants}

PollutantInputs == {PollutantInput(m, v) : m \in MissingSets, v \in InVals}

\* Non-field attributes of a pydantic v2 model instance, with whether the
\* attribute's value is None: model_extra is None unless extra='allow',
\* model_dump is a bound method.
OtherAttributes == [model_extra |-> TRUE, model_dump |-> FALSE]

hasattr(name) == name \in Pollutants \/ name \in DOMAIN OtherAttributes

\* str.lower() on the pollutant codes of the model.
UpperCodes == [PM25 |-> "pm25", PM10 |-> "pm10", O3 |-> "o3", NO2 |-> "no2", SO2 |-> "so2", CO |-> "co", NH3 |-> "nh3"]

lower(code) == IF code \in DOMAIN UpperCodes THEN UpperCodes[code] ELSE code

\* Pollutant entries of an Air Quality API answer: the code as sent and the
\* concentration value (None when the entry carries no concentration value).
RawPollutant(code, v) == [code |-> code, value |-> v]

RawPollutants ==
    { RawPollutant("pm25", Some(42)), RawPollutant("pm25", Some(7)),
      RawPollutant("PM10", Some(0)), RawPollutant("o3", None),
      RawPollutant("nh3", Some(5)), RawPollutant("model_extra", Some(5)) }

SeqsUpTo(S, n) == UNION {[1..k -> S] : k \in 0..n}

RawPollutantLists == SeqsUpTo(RawPollutants, MaxLive)

\* The dateTime an Air Quality API answer may report (None: the field is missing).
ReportedTimes == {None, Some(1747785600)}

\* Places the Google Places API may answer with.
Places ==
    { [id |-> "ChIJ_jkt", latitude |-> -6, longitude |-> 106, formattedAddress |-> "Jakarta, Indonesia"],
      [id |-> "ChIJ_alt", latitude |-> 40, longitude |-> -74, formattedAddress |-> "Elsewhere"] }

\* (country, city) pairs of requests; they differ only in case and share a cache key.
LocationPairs == {<<"Indonesia", "Jakarta">>, <<"indonesia", "jakarta">>}

\* str.lower().replace(' ', '_') on the names of the model.
NormalizedNames ==
    [Indonesia |-> "indonesia", Jakarta |-> "jakarta", indonesia |-> "indonesia", jakarta |-> "jakarta"]

normalize(name) ==
    IF name \in DOMAIN NormalizedNames THEN NormalizedNames[name]
    ELSE name

_generate_geocode_cache_key(country, city) == <<"geocode", normalize(country), normalize(city)>>

CacheKeys == {_generate_geocode_cache_key(lp[1], lp[2]) : lp \in LocationPairs}

\* ------------------------------------------------------------ state

VARIABLES
    settings,                  \* core.config.Settings: whether each API key is set
    locations_cache,           \* the locations_cache collection: cache_key -> document
    now,                       \* the clock (seconds)
    ticks,                     \* clock steps taken
    lastOp,                    \* the cache-level call that has just returned, if any
    lastLive,                  \* per pair: the latest call that geocoded live and succeeded
    pc,                        \* position of the execute call
    req,                       \* the arguments of execute
    initial_pollutants,
    location_context,
    geocoded_loc_details,      \* local of _auto_fill_pollutants
    external_aq_data,          \* local of _auto_fill_pollutants
    autofill_ret,              \* what _auto_fill_pollutants returned
    final_pollutants,
    used_measurements_info,
    geocoded_location_details,
    input_df,                  \* the frame handed to get_aqi_prediction
    X_infer,                   \* the engineered features handed to the classifier
    prediction_result_obj,
    predictions,               \* the predictions collection
    outcome,                   \* how the execute call ended
    returned,                  \* the StoredPrediction execute returned
    calls,                     \* collaborator calls made by the execute call
    faults,                    \* collaborator failures met by the execute call
    model, le_country, le_loc, le_cat, loaded,   \* ModelResources
    files,                     \* the model store on disk
    loadResult,                \* how the last ModelResources.load ended
    server,                    \* the ASGI application: starting, serving or aborted
    current_conditions,        \* the current-conditions collection
    heatmap_data_points,       \* what the last heatmap aggregation returned
    procs,                     \* concurrent geocode_location calls: position and locals
    applied                    \* the cache documents the store applied, in order

cacheVars == <<settings, locations_cache, now, ticks, lastOp, lastLive>>

reqVars ==
    <<pc, req, initial_pollutants, location_context, geocoded_loc_details, external_aq_data,
      autofill_ret, final_pollutants, used_measurements_info, geocoded_location_details,
      input_df, X_infer, prediction_result_obj, predictions, outcome, returned, calls, faults>>

mlVars == <<model, le_country, le_loc, le_cat, loaded, files, loadResult, server>>

mapVars == <<current_conditions, heatmap_data_points>>

concVars == <<procs, applied>>

vars == <<cacheVars, reqVars, mlVars, mapVars, concVars>>

\* ------------------------------------------------------------ geocode cache

\* GeocodedLocation.model_dump(mode='json') and model_validate of it: the seven fields.
model_dump_json(loc) ==
    [latitude |-> loc.latitude, longitude |-> loc.longitude,
     formatted_address |-> loc.formatted_address, country |-> loc.country,
     city |-> loc.city, place_id |-> loc.place_id, source_api |-> loc.source_api]

model_validate(data) ==
    [latitude |-> data.latitude, longitude |-> data.longitude,
     formatted_address |-> data.formatted_address, country |-> data.country,
     city |-> data.city, place_id |-> data.place_id, source_api |-> data.source_api]

_get_location_from_cache_Miss(cache, key, storeOk) == None

\* find_one({"cache_key": key}) then model_validate; any store error gives None.
\* The query does not look at expireAt.
_get_location_from_cache(cache, key, storeOk) ==
    IF ~storeOk THEN None
    ELSE IF cache[key] = None THEN None
    ELSE Some(model_validate(cache[key][1].data))

update_one_set_upsert_KeepOld(old, doc) == IF old = None THEN doc ELSE old[1]

\* update_one(filter, {"$set": doc}, upsert=True): the fields of doc replace the
\* stored ones, a stored field doc does not name is kept.
update_one_set_upsert(old, doc) ==
    IF old = None THEN doc
    ELSE [cache_key |-> doc.cache_key, data |-> doc.data, created_at |-> doc.created_at,
          expireAt |-> IF doc.expireAt # None THEN doc.expireAt ELSE old[1].expireAt]

\* The document one save sends to the store.
\* expireAt = <<>> stands for a document without the expireAt field.
cache_document(key, location_data, ttl_seconds, t) ==
    LET expire_at == IF ttl_seconds # None THEN Some(t + ttl_seconds[1]) ELSE None
    IN  [cache_key |-> key, data |-> model_dump_json(location_data),
         created_at |-> t, expireAt |-> expire_at]

_save_location_to_cache(cache, key, location_data, ttl_seconds, t, storeOk) ==
    IF ~storeOk THEN cache
    ELSE [cache EXCEPT ![key] = Some(update_one_set_upsert(
                                        cache[key], cache_document(key, location_data, ttl_seconds, t)))]

get_geocoded_location(cache, country, city, storeOk) ==
    _get_location_from_cache(cache, _generate_geocode_cache_key(country, city), storeOk)

save_geocoded_location(cache, country, city, location_data, ttl_seconds, t, storeOk) ==
    _save_location_to_cache(cache, _generate_geocode_cache_key(country, city),
                            location_data, ttl_seconds, t, storeOk)

\* The TTL index expireAt_ttl_idx (expireAfterSeconds=0): MongoDB's monitor may
\* remove a document once the clock has reached its expireAt, at a time of its own.
Expired(doc, t) == doc # None /\ doc[1].expireAt # None /\ doc[1].expireAt[1] <= t

\* ------------------------------------------------------------ GooglePlacesService

\* What the Places API call may do.
PlacesResponses ==
    {[kind |-> k, place |-> None] : k \in {"http_status_error", "request_error", "no_places", "no_latlng"}}
    \cup {[kind |-> "place", place |-> Some(p)] : p \in Places}

GeocodeEnvs == [getOk : BOOLEAN, response : PlacesResponses, saveOk : BOOLEAN]

\* Lines 47-93, the body of the try block, for a cache miss.
GeocodeTryBody(cache, country, city, env, t) ==
    LET r == env.response
    IN  IF r.kind \in {"http_status_error", "request_error"}
        THEN [raised |-> TRUE, result |-> None, cache |-> cache, saved |-> FALSE]
        ELSE IF r.kind \in {"no_places", "no_latlng"}
        THEN [raised |-> FALSE, result |-> None, cache |-> cache, saved |-> FALSE]
        ELSE LET geocoded ==
                    [latitude |-> r.place[1].latitude, longitude |-> r.place[1].longitude,
                     formatted_address |-> r.place[1].formattedAddress,
                     country |-> country, city |-> city, place_id |-> r.place[1].id,
                     source_api |-> "google_places_api"]
             IN  [raised |-> FALSE, result |-> Some(geocoded),
                  cache |-> save_geocoded_location(cache, country, city, geocoded,
                                                   Some(DefaultTtl), t, env.saveOk),
                  saved |-> TRUE]

\* Lines 94-99: both except clauses log and return None.
GeocodeExcept_Reraise(b) == b

GeocodeExcept(b) ==
    IF b.raised THEN [b EXCEPT !.raised = FALSE, !.result = None] ELSE b

\* A cache hit returns the cached location with source_api rewritten.
CacheHit(cached) == Some([cached[1] EXCEPT !.source_api = "google_places_api (cached)"])

NoCalls == [cache_get |-> 0, cache_set |-> 0, live_geocoder |-> 0]

geocode_location_SaveOnHit(cfg, cache, country, city, env, t) ==
    IF ~cfg.GOOGLE_MAPS_API_KEY
    THEN [raised |-> FALSE, result |-> None, cache |-> cache, n |-> NoCalls]
    ELSE LET cached_location == get_geocoded_location(cache, country, city, env.getOk)
         IN  IF cached_location # None
             THEN [raised |-> FALSE, result |-> CacheHit(cached_location),
                   cache |-> save_geocoded_location(cache, country, city, cached_location[1],
                                                    Some(DefaultTtl), t, env.saveOk),
                   n |-> [NoCalls EXCEPT !.cache_get = 1]]
             ELSE LET b == GeocodeExcept(GeocodeTryBody(cache, country, city, env, t))
                  IN  [raised |-> b.raised, result |-> b.result, cache |-> b.cache,
                       n |-> [cache_get |-> 1, cache_set |-> IF b.saved THEN 1 ELSE 0,
                              live_geocoder |-> 1]]

\* GooglePlacesService.geocode_location as one call: the result, the cache after
\* it, the collaborator calls it made, and whether an exception left it.
geocode_location(cfg, cache, country, city, env, t) ==
    IF ~cfg.GOOGLE_MAPS_API_KEY
    THEN [raised |-> FALSE, result |-> None, cache |-> cache, n |-> NoCalls]
    ELSE LET cached_location == get_geocoded_location(cache, country, city, env.getOk)
         IN  IF cached_location # None
             THEN [raised |-> FALSE, result |-> CacheHit(cached_location), cache |-> cache,
                   n |-> [NoCalls EXCEPT !.cache_get = 1]]
             ELSE LET b == GeocodeExcept(GeocodeTryBody(cache, country, city, env, t))
                  IN  [raised |-> b.raised, result |-> b.result, cache |-> b.cache,
                       n |-> [cache_get |-> 1, cache_set |-> IF b.saved THEN 1 ELSE 0,
                              live_geocoder |-> 1]]

\* ------------------------------------------------------------ GoogleAirQualityService

\* What the Air Quality API call may do.
AirQualityResponses ==
    {[kind |-> k, pollutants |-> <<>>, dateTime |-> None] :
        k \in {"http_400_unavailable", "http_status_error", "request_error", "empty_json", "parse_error"}}
    \cup {[kind |-> "data", pollutants |-> l, dateTime |-> d] :
            l \in RawPollutantLists, d \in ReportedTimes}

\* _parse_google_aq_response: codes are lowercased, every entry gets a
\* concentration object, fetch_timestamp is the reported dateTime or the clock.
_parse_google_aq_response(r, t) ==
    [fetch_timestamp |-> IF r.dateTime # None THEN r.dateTime[1] ELSE t,
     pollutants |-> [i \in 1..Len(r.pollutants) |->
                        [code |-> lower(r.pollutants[i].code),
                         concentration |-> Some([value |-> r.pollutants[i].value])]]]

\* Lines 113-125, the body of the try block.
AirQualityTryBody(r, t) ==
    IF r.kind \in {"http_400_unavailable", "http_status_error", "request_error", "parse_error"}
    THEN [raised |-> TRUE, result |-> None]
    ELSE IF r.kind = "empty_json"
    THEN [raised |-> FALSE, result |-> None]
    ELSE [raised |-> FALSE, result |-> Some(_parse_google_aq_response(r, t))]

\* Lines 127-139: every except clause logs and returns None.
AirQualityExcept(b) ==
    IF b.raised THEN [raised |-> FALSE, result |-> None] ELSE b

get_current_air_quality(cfg, r, t) ==
    IF ~cfg.GOOGLE_API_KEY
    THEN [raised |-> FALSE, result |-> None, n |-> 0]
    ELSE LET b == AirQualityExcept(AirQualityTryBody(r, t))
         IN  [raised |-> b.raised, result |-> b.result, n |-> 1]

\* ------------------------------------------------------------ _auto_fill_pollutants

SourceLabel == "External Air Quality Service"

needs_filling_Always(current_pollutants) == TRUE

\* Lines 50-56.
needs_filling(current_pollutants) == \E p \in Pollutants : current_pollutants[p] = None

\* getattr(current_pollutants, name) is None, for a name the instance has.
getattr_is_none(current_pollutants, name) ==
    IF name \in Pollutants THEN current_pollutants[name] = None ELSE OtherAttributes[name]

FillCondition_NoNoneCheck(current_pollutants, pollutant_code) == hasattr(pollutant_code)

\* Line 91.
FillCondition(current_pollutants, pollutant_code) ==
    hasattr(pollutant_code) /\ getattr_is_none(current_pollutants, pollutant_code)

Put(f, k, v) == [x \in DOMAIN f \cup {k} |-> IF x = k THEN v ELSE f[x]]

\* One turn of the loop of lines 89-97.
FillStep(current_pollutants, acc, ext_pollutant) ==
    LET pollutant_code == lower(ext_pollutant.code)
    IN  IF /\ FillCondition(current_pollutants, pollutant_code)
           /\ ext_pollutant.concentration # None
           /\ ext_pollutant.concentration[1].value # None
        THEN LET value == ext_pollutant.concentration[1].value[1]
             IN  [updated_pollutants_dict |-> Put(acc.updated_pollutants_dict, pollutant_code, Some(value)),
                  filled_pollutants_from_source |-> Put(acc.filled_pollutants_from_source, pollutant_code, value),
                  filled_any |-> TRUE]
        ELSE acc

RECURSIVE FillLoop(_, _, _, _)
FillLoop(current_pollutants, acc, exts, i) ==
    IF i > Len(exts) THEN acc
    ELSE FillLoop(current_pollutants, FillStep(current_pollutants, acc, exts[i]), exts, i + 1)

EmptyMap == [x \in {} |-> 0]

\* PollutantConcentrations(**d): the six fields, other keys ignored.
PollutantConcentrations(d) == [p \in Pollutants |-> IF p \in DOMAIN d THEN d[p] ELSE None]

UpdatedPollutants_FromFilled(acc) ==
    PollutantConcentrations([k \in DOMAIN acc.filled_pollutants_from_source |->
                                Some(acc.filled_pollutants_from_source[k])])

\* Line 103.
UpdatedPollutants(acc) == PollutantConcentrations(acc.updated_pollutants_dict)

\* Lines 85-110: what _auto_fill_pollutants returns once the live reading is in.
AutoFillFromReading(current_pollutants, aq, details) ==
    LET acc == FillLoop(current_pollutants,
                        [updated_pollutants_dict |-> current_pollutants,
                         filled_pollutants_from_source |-> EmptyMap,
                         filled_any |-> FALSE],
                        aq.pollutants, 1)
    IN  IF ~acc.filled_any
        THEN [pollutants |-> current_pollutants, used |-> None, geocoded |-> details]
        ELSE [pollutants |-> UpdatedPollutants(acc),
              used |-> Some([source |-> SourceLabel, timestamp |-> aq.fetch_timestamp,
                             pollutants |-> acc.filled_pollutants_from_source]),
              geocoded |-> details]

\* ------------------------------------------------------------ feature engineering

MaxRows == 2

\* Pollutant cells of a frame. Numbers are in tenths of a unit (co's default
\* mean is 0.5); NaN stands for None and NaN alike.
Num(v) == [k |-> "num", v |-> v]

NaN == [k |-> "nan", v |-> 0]

Inf == [k |-> "inf", v |-> 0]

NonNumeric == [k |-> "str", v |-> 0]

NumericString(v) == [k |-> "numstr", v |-> v]

RawValues == {NaN, NonNumeric, NumericString(600), Num(-50), Num(0), Num(600), Num(9000000), Inf}

DEFAULT_POLLUTANT_MEAN_VALUES ==
    [pm25 |-> 250, pm10 |-> 500, o3 |-> 300, no2 |-> 250, so2 |-> 100, co |-> 5]

\* Lines 63-66, in tenths.
ClipBounds ==
    [pm25 |-> <<0, 5000>>, pm10 |-> <<0, 10000>>, o3 |-> <<0, 4000>>,
     no2 |-> <<0, 3000>>, so2 |-> <<0, 2000>>, co |-> <<0, 500>>]

\* pd.to_numeric(errors='coerce') on one cell.
to_numeric(x) ==
    CASE x.k = "numstr" -> Num(x.v)
      [] x.k = "str" -> NaN
      [] OTHER -> x

fillna(x, fill_value) == IF x.k = "nan" THEN Num(fill_value) ELSE x

clip_NoLower(x, lower_bound, upper_bound) ==
    CASE x.k = "inf" -> Num(upper_bound)
      [] x.k = "num" /\ x.v > upper_bound -> Num(upper_bound)
      [] OTHER -> x

\* Series.clip(lower, upper) on one cell.
clip(x, lower_bound, upper_bound) ==
    CASE x.k = "inf" -> Num(upper_bound)
      [] x.k = "-inf" -> Num(lower_bound)
      [] x.k = "num" /\ x.v > upper_bound -> Num(upper_bound)
      [] x.k = "num" /\ x.v < lower_bound -> Num(lower_bound)
      [] OTHER -> x

\* Lines 49-69 for one cell of column col; the column may be absent.
PollutantColumn(df, row, col) ==
    LET filled == IF col \in df.absent
                  THEN Num(DEFAULT_POLLUTANT_MEAN_VALUES[col])
                  ELSE fillna(to_numeric(row[col]), DEFAULT_POLLUTANT_MEAN_VALUES[col])
    IN  clip(filled, ClipBounds[col][1], ClipBounds[col][2])

\* Float division of two cells: a zero divisor gives inf or NaN, not an error.
Divide(a, b) ==
    IF b.v = 0
    THEN IF a.v = 0 THEN NaN ELSE Inf
    ELSE [k |-> "ratio", num |-> a.v, den |-> b.v]

Zero == [k |-> "ratio", num |-> 0, den |-> 1]

pm25_pm10_ratio_Unguarded(pm25, pm10) == Divide(pm25, pm10)

\* Lines 72-76: np.where(pm10 > 0, pm25 / pm10, 0); both branches are computed.
pm25_pm10_ratio(pm25, pm10) ==
    LET quotient == Divide(pm25, pm10)
    IN  IF pm10.v > 0 THEN quotient ELSE Zero

\* Date cells: None, or a string; pd.to_datetime(errors='coerce') parses the
\* first two and turns the others into NaT.
DateStrings == {"2025-05-21", "2025-05-24", "2025-02-30", "tomorrow"}

DateCells == {None} \cup {Some(d) : d \in DateStrings}

to_datetime_ok(d) == d \in {"2025-05-21", "2025-05-24"}

\* Timestamp.dayofweek of a parsed date string (Monday is 0).
dayofweek(d) == IF d = "2025-05-21" THEN 2 ELSE 5

\* datetime.now().weekday() at clock t (seconds since a Thursday midnight).
weekday_now(t) == ((t \div 86400) + 3) % 7

is_weekend(dow) == IF dow \in {5, 6} THEN 1 ELSE 0

\* Lines 28-46 for the whole date column: the day of the week of each row, or
\* None for every row when the frame has no date column. A column that is not
\* all strings is not parsed; a None in it is filled with the current timestamp,
\* a string left in it then makes the .dt accessor raise and the except branch
\* gives every row the current day (a column of Nones alone ends at the current
\* day as well, through .dt or through the except branch).
DateColumn(df, t) ==
    LET n == Len(df.rows)
        is_string_dtype == \A i \in 1..n : df.rows[i].date # None
    IN  IF "date" \in df.absent
        THEN [i \in 1..n |-> None]
        ELSE IF is_string_dtype
        THEN [i \in 1..n |->
                 IF to_datetime_ok(df.rows[i].date[1])
                 THEN Some(dayofweek(df.rows[i].date[1]))
                 ELSE Some(weekday_now(t))]
        ELSE [i \in 1..n |-> Some(weekday_now(t))]

\* The vocabularies the fitted encoders hold (LabelEncoder.classes_, sorted).
le_country_classes == <<"Indonesia", "Malaysia">>

le_loc_classes == <<"Bandung", "Jakarta">>

\* Stands for the ValueError LabelEncoder.transform raises on an unseen label.
ValueErrorCode == -2

\* LabelEncoder.transform([x])[0]: the 0-based place of x in classes_, a
\* ValueError for a value not in it.
transform(x, classes) ==
    IF \E i \in 1..Len(classes) : classes[i] = x
    THEN (CHOOSE i \in 1..Len(classes) : classes[i] = x) - 1
    ELSE ValueErrorCode

\* LabelEncoder.inverse_transform([code])[0].
inverse_transform(code, classes) == classes[code + 1]

safe_label_transform_Unsafe(x, classes) == transform(x, classes)

\* safe_label_transform on one cell.
safe_label_transform(x, classes) ==
    IF \E i \in 1..Len(classes) : classes[i] = x THEN transform(x, classes) ELSE -1

\* Lines 78-88 for one cell.
EncodedColumn(df, row, col, encoder, classes) ==
    IF col \notin df.absent /\ encoder # "None"
    THEN safe_label_transform(row[col], classes)
    ELSE -1

\* base_feature_engineering: one engineered row per row of the frame.
base_feature_engineering(df, le_country_, le_loc_, t) ==
    LET dates == DateColumn(df, t)
    IN  [i \in 1..Len(df.rows) |->
            LET row == df.rows[i]
                pol == [col \in Pollutants |-> PollutantColumn(df, row, col)]
            IN  [pollutants |-> pol,
                 dayofweek |-> dates[i],
                 is_weekend |-> IF dates[i] = None THEN None ELSE Some(is_weekend(dates[i][1])),
                 total_pollutants |-> pol["pm25"].v + pol["pm10"].v + pol["o3"].v
                                      + pol["no2"].v + pol["so2"].v + pol["co"].v,
                 pm25_pm10_ratio |-> pm25_pm10_ratio(pol["pm25"], pol["pm10"]),
                 country_encoded |-> EncodedColumn(df, row, "country", le_country_, le_country_classes),
                 loc_encoded |-> EncodedColumn(df, row, "loc", le_loc_, le_loc_classes)]]

\* prepare_data_for_model: a model column missing after engineering is filled
\* with 0.
prepare_data_for_model(df_engineered) ==
    [i \in 1..Len(df_engineered) |->
        [df_engineered[i] EXCEPT
            !.dayofweek = IF @ = None THEN 0 ELSE @[1],
            !.is_weekend = IF @ = None THEN 0 ELSE @[1]]]

\* Lines 156-167 of execute: the one-row frame built from the domain input, as
\* base_feature_engineering sees it.
DataFrame(d) ==
    [absent |-> {},
     rows |-> <<[date |-> Some(d.date),
                 pm25 |-> IF d.pollutants["pm25"] = None THEN NaN ELSE Num(10 * d.pollutants["pm25"][1]),
                 pm10 |-> IF d.pollutants["pm10"] = None THEN NaN ELSE Num(10 * d.pollutants["pm10"][1]),
                 o3 |-> IF d.pollutants["o3"] = None THEN NaN ELSE Num(10 * d.pollutants["o3"][1]),
                 no2 |-> IF d.pollutants["no2"] = None THEN NaN ELSE Num(10 * d.pollutants["no2"][1]),
                 so2 |-> IF d.pollutants["so2"] = None THEN NaN ELSE Num(10 * d.pollutants["so2"][1]),
                 co |-> IF d.pollutants["co"] = None THEN NaN ELSE Num(10 * d.pollutants["co"][1]),
                 country |-> d.country,
                 loc |-> d.loc]>>]

\* ------------------------------------------------------------ ModelResources

ArtifactFiles == {"model", "le_country", "le_loc", "le_cat"}

Bundle == [model |-> model, le_country |-> le_country, le_loc |-> le_loc, le_cat |-> le_cat, loaded |-> loaded]

\* ModelResources.load: the artifacts are read in order; the first file that is
\* missing or corrupt ends the load with a RuntimeError. XGBClassifier() is
\* assigned before its file is read ("unfitted").
load_LoadedEarly(b, fs) ==
    IF b.loaded THEN [bundle |-> b, result |-> "noop"]
    ELSE IF fs["model"] # "ok"
    THEN [bundle |-> [b EXCEPT !.model = "unfitted", !.loaded = FALSE], result |-> "RuntimeError"]
    ELSE [bundle |-> [b EXCEPT !.model = "loaded", !.loaded = TRUE],
          result |-> IF \A f \in ArtifactFiles : fs[f] = "ok" THEN "ok" ELSE "RuntimeError"]

load_Reload(b, fs) ==
    IF fs["model"] # "ok"
    THEN [bundle |-> [b EXCEPT !.model = "unfitted", !.loaded = FALSE], result |-> "RuntimeError"]
    ELSE IF \E f \in ArtifactFiles : fs[f] # "ok"
    THEN [bundle |-> [b EXCEPT !.model = "loaded", !.loaded = FALSE], result |-> "RuntimeError"]
    ELSE [bundle |-> [model |-> "loaded", le_country |-> "loaded", le_loc |-> "loaded",
                      le_cat |-> "loaded", loaded |-> TRUE],
          result |-> "ok"]

load(b, fs) ==
    IF b.loaded THEN [bundle |-> b, result |-> "noop"]
    ELSE IF fs["model"] # "ok"
    THEN [bundle |-> [b EXCEPT !.model = "unfitted", !.loaded = FALSE], result |-> "RuntimeError"]
    ELSE IF fs["le_country"] # "ok"
    THEN [bundle |-> [b EXCEPT !.model = "loaded", !.loaded = FALSE], result |-> "RuntimeError"]
    ELSE IF fs["le_loc"] # "ok"
    THEN [bundle |-> [b EXCEPT !.model = "loaded", !.le_country = "loaded", !.loaded = FALSE],
          result |-> "RuntimeError"]
    ELSE IF fs["le_cat"] # "ok"
    THEN [bundle |-> [b EXCEPT !.model = "loaded", !.le_country = "loaded", !.le_loc = "loaded",
                               !.loaded = FALSE],
          result |-> "RuntimeError"]
    ELSE [bundle |-> [model |-> "loaded", le_country |-> "loaded", le_loc |-> "loaded",
                      le_cat |-> "loaded", loaded |-> TRUE],
          result |-> "ok"]

\* load_ml_resources: load unless already loaded; a RuntimeError is re-raised.
load_ml_resources(b, fs) ==
    IF ~b.loaded THEN load(b, fs) ELSE [bundle |-> b, result |-> "noop"]

\* ConcreteMLModelRepository.load_resources.
load_resources(b, fs) ==
    IF ~b.loaded THEN load_ml_resources(b, fs) ELSE [bundle |-> b, result |-> "noop"]

Categories ==
    {"Good", "Moderate", "Unhealthy for Sensitive Groups", "Unhealthy", "Very Unhealthy", "Hazardous"}

\* le_cat.classes_: the six labels in the encoder's (sorted) order.
le_cat_classes ==
    <<"Good", "Hazardous", "Moderate", "Unhealthy", "Unhealthy for Sensitive Groups", "Very Unhealthy">>

\* A row of predict_proba, in hundredths; the classifier returns one entry per
\* class it was trained with, which the code never compares with the encoder.
RawProba == <<5, 10, 15, 20, 22, 28, 0>>

ProbaLengths == {5, 6, 7}

\* What the classifier may do with one row.
InferenceOutcomes ==
    {[kind |-> "category", category |-> c, pred_proba |-> SubSeq(RawProba, 1, n)] :
        c \in {"Unhealthy"}, n \in ProbaLengths}
    \cup {[kind |-> k, category |-> "", pred_proba |-> <<>>] : k \in {"empty", "error"}}

Min(a, b) == IF a <= b THEN a ELSE b

\* {str(cat): float(prob) for cat, prob in zip(classes, pred_proba)}: zip stops
\* at the shorter of the two.
probabilities(classes, pred_proba) ==
    [cat \in {classes[i] : i \in 1..Min(Len(classes), Len(pred_proba))} |->
        pred_proba[CHOOSE i \in 1..Min(Len(classes), Len(pred_proba)) : classes[i] = cat]]

\* predict_aqi_category: refuses an unloaded bundle; any failure of the pipeline
\* leaves as a RuntimeError.
predict_aqi_category(b, o) ==
    IF ~b.loaded \/ b.model = "None" \/ b.le_country = "None" \/ b.le_loc = "None" \/ b.le_cat = "None"
    THEN [raised |-> TRUE, result |-> None]
    ELSE IF o.kind # "category"
    THEN [raised |-> TRUE, result |-> None]
    ELSE [raised |-> FALSE,
          result |-> Some([predicted_category |-> o.category,
                           probabilities |-> probabilities(le_cat_classes, o.pred_proba)])]

get_aqi_prediction_Default(b, fs, o) ==
    LET l == IF ~b.loaded THEN load_resources(b, fs) ELSE [bundle |-> b, result |-> "noop"]
    IN  [raised |-> FALSE,
         result |-> Some([predicted_category |-> "Good",
                          probabilities |-> probabilities(le_cat_classes, <<100, 0, 0, 0, 0, 0>>)]),
         bundle |-> l.bundle,
         load |-> l.result]

\* ConcreteMLModelRepository.get_aqi_prediction: one load attempt when the
\* bundle is not loaded, then the prediction.
get_aqi_prediction(b, fs, o) ==
    LET l == IF ~b.loaded THEN load_resources(b, fs) ELSE [bundle |-> b, result |-> "noop"]
    IN  IF l.result = "RuntimeError" \/ ~l.bundle.loaded
        THEN [raised |-> TRUE, result |-> None, bundle |-> l.bundle, load |-> l.result]
        ELSE LET r == predict_aqi_category(l.bundle, o)
             IN  [raised |-> r.raised, result |-> r.result, bundle |-> l.bundle, load |-> l.result]

startup_event_Swallow(b, fs, mongoOk) ==
    LET l == load_resources(b, fs)
    IN  [bundle |-> l.bundle, load |-> l.result, server |-> "serving"]

\* startup_event: connect to MongoDB, then load the artifacts; any exception is
\* logged and re-raised, which ends the ASGI lifespan startup and with it the
\* server (uvicorn.run in main.py); otherwise the application begins to serve.
startup_event(b, fs, mongoOk) ==
    IF ~mongoOk
    THEN [bundle |-> b, load |-> "none", server |-> "aborted"]
    ELSE LET l == load_resources(b, fs)
         IN  [bundle |-> l.bundle, load |-> l.result,
              server |-> IF l.result = "RuntimeError" \/ ~l.bundle.loaded THEN "aborted" ELSE "serving"]

\* ------------------------------------------------------------ initial state

SettingsSet == [GOOGLE_API_KEY : BOOLEAN, GOOGLE_MAPS_API_KEY : BOOLEAN]

NoOp ==
    [op |-> "none", pair |-> <<"", "">>, result |-> None, live |-> FALSE, getOk |-> FALSE,
     place |-> None, ttl |-> None, stored |-> FALSE, expired |-> FALSE,
     afterLive |-> FALSE, afterStored |-> FALSE, held |-> None]

NoRequestCalls == [geocode |-> 0, cache_get |-> 0, cache_set |-> 0, live_geocoder |-> 0, air_quality |-> 0]

InitCacheVars ==
    /\ settings \in SettingsSet
    /\ now = 0
    /\ ticks = 0
    /\ lastOp = NoOp
    /\ lastLive = [lp \in LocationPairs |-> None]

InitReqVars ==
    /\ pc = "idle"
    /\ req = None
    /\ initial_pollutants = None
    /\ location_context = None
    /\ geocoded_loc_details = None
    /\ external_aq_data = None
    /\ autofill_ret = None
    /\ final_pollutants = None
    /\ used_measurements_info = None
    /\ geocoded_location_details = None
    /\ input_df = None
    /\ X_infer = None
    /\ prediction_result_obj = None
    /\ predictions = <<>>
    /\ outcome = "running"
    /\ returned = None
    /\ calls = NoRequestCalls
    /\ faults = {}

\* No concurrent geocode_location call is under way.
InitConcVars ==
    /\ procs = <<>>
    /\ applied = <<>>

\* No heatmap aggregation has been asked for.
InitMapVars ==
    /\ current_conditions = <<>>
    /\ heatmap_data_points = None

\* ModelResources after a startup that loaded all four artifacts.
InitMlLoaded ==
    /\ model = "loaded"
    /\ le_country = "loaded"
    /\ le_loc = "loaded"
    /\ le_cat = "loaded"
    /\ loaded = TRUE
    /\ files = [f \in {"model", "le_country", "le_loc", "le_cat"} |-> "ok"]
    /\ loadResult = "ok"
    /\ server = "serving"

\* ------------------------------------------------------------ SpecCache

GeocodedFrom(lp, p) ==
    [latitude |-> p.latitude, longitude |-> p.longitude, formatted_address |-> p.formattedAddress,
     country |-> lp[1], city |-> lp[2], place_id |-> p.id, source_api |-> "google_places_api"]

\* The location the store holds for the pair's key, read or not.
Held(cache, lp) ==
    LET doc == cache[_generate_geocode_cache_key(lp[1], lp[2])]
    IN  IF doc = None THEN None ELSE Some(model_validate(doc[1].data))

\* Whether t lies in the default TTL window opened by the recorded call.
WithinTtl(rec, t) == rec # None /\ t < rec[1].at + DefaultTtl

\* A caller awaits location_service.geocode_location(country, city).
GeocodeCall(lp, env) ==
    LET g == geocode_location(settings, locations_cache, lp[1], lp[2], env, now)
        live == g.n.live_geocoder = 1
    IN  /\ locations_cache' = g.cache
        /\ lastOp' = [NoOp EXCEPT !.op = "geocode", !.pair = lp, !.result = g.result,
                                  !.live = live, !.getOk = env.getOk,
                                  !.stored = (g.n.cache_set = 1 /\ env.saveOk),
                                  !.afterLive = WithinTtl(lastLive[lp], now),
                                  !.afterStored = (WithinTtl(lastLive[lp], now) /\ lastLive[lp][1].stored),
                                  !.held = Held(locations_cache, lp)]
        /\ lastLive' = IF live /\ g.result # None
                       THEN [lastLive EXCEPT ![lp] = Some([at |-> now, stored |-> env.saveOk])]
                       ELSE lastLive
        /\ UNCHANGED <<concVars, mapVars, settings, now, ticks, reqVars, mlVars>>

\* A caller awaits cache_repository.get_geocoded_location(country, city).
CacheGet(lp, storeOk) ==
    LET key == _generate_geocode_cache_key(lp[1], lp[2])
        doc == locations_cache[key]
    IN  /\ lastOp' = [NoOp EXCEPT !.op = "get", !.pair = lp, !.getOk = storeOk,
                                  !.result = get_geocoded_location(locations_cache, lp[1], lp[2], storeOk),
                                  !.expired = (doc # None /\ doc[1].expireAt # None
                                               /\ doc[1].expireAt[1] < now)]
        /\ UNCHANGED <<concVars, mapVars, settings, locations_cache, now, ticks, lastLive, reqVars, mlVars>>

TtlChoices == {None, Some(DefaultTtl)}

\* A caller awaits cache_repository.save_geocoded_location(country, city, data, ttl).
CacheSave(lp, p, ttl, storeOk) ==
    LET data == GeocodedFrom(lp, p)
    IN  /\ locations_cache' = save_geocoded_location(locations_cache, lp[1], lp[2], data, ttl, now, storeOk)
        /\ lastOp' = [NoOp EXCEPT !.op = "save", !.pair = lp, !.place = Some(p), !.ttl = ttl,
                                  !.stored = storeOk]
        /\ UNCHANGED <<concVars, mapVars, settings, now, ticks, lastLive, reqVars, mlVars>>

\* The clock advances by a second or by a whole default TTL.
Tick(d) ==
    /\ ticks < MaxTicks
    /\ ticks' = ticks + 1
    /\ now' = now + d
    /\ lastOp' = NoOp
    /\ UNCHANGED <<concVars, mapVars, settings, locations_cache, lastLive, reqVars, mlVars>>

\* MongoDB's TTL monitor removes an expired document.
TTLMonitor(key) ==
    /\ Expired(locations_cache[key], now)
    /\ locations_cache' = [locations_cache EXCEPT ![key] = None]
    /\ lastOp' = NoOp
    /\ UNCHANGED <<concVars, mapVars, settings, now, ticks, lastLive, reqVars, mlVars>>

InitCache ==
    /\ InitCacheVars
    /\ locations_cache = [k \in CacheKeys |-> None]
    /\ InitReqVars
    /\ InitMapVars
    /\ InitConcVars
    /\ InitMlLoaded

\* The cache repository called directly, under the clock and the TTL monitor.
NextCache ==
    \/ \E lp \in LocationPairs, ok \in BOOLEAN : CacheGet(lp, ok)
    \/ \E lp \in LocationPairs, p \in Places, ttl \in TtlChoices, ok \in BOOLEAN : CacheSave(lp, p, ttl, ok)
    \/ \E d \in {1, DefaultTtl} : Tick(d)
    \/ \E k \in CacheKeys : TTLMonitor(k)

SpecCache == InitCache /\ [][NextCache]_vars

\* geocode_location calls, under the clock and the TTL monitor.
NextGeocode ==
    \/ \E lp \in LocationPairs, env \in GeocodeEnvs : GeocodeCall(lp, env)
    \/ \E d \in {1, DefaultTtl} : Tick(d)
    \/ \E k \in CacheKeys : TTLMonitor(k)

SpecGeocode == InitCache /\ [][NextGeocode]_vars

\* ------------------------------------------------------------ SpecConcurrent

MaxProcs == 2

Procs == 1..MaxProcs

IdleProc == [pc |-> "idle", pair |-> None, geocoded |-> None, result |-> None]

\* google_places_service.py 32-45: the key check and the awaited cache lookup.
ProcGet(i, lp, getOk) ==
    LET cached_location == get_geocoded_location(locations_cache, lp[1], lp[2], getOk)
    IN  /\ procs[i].pc = "idle"
        /\ procs' = [procs EXCEPT ![i] =
                IF ~settings.GOOGLE_MAPS_API_KEY
                THEN [IdleProc EXCEPT !.pc = "done", !.pair = Some(lp)]
                ELSE IF cached_location # None
                THEN [IdleProc EXCEPT !.pc = "done", !.pair = Some(lp),
                                      !.result = CacheHit(cached_location)]
                ELSE [IdleProc EXCEPT !.pc = "fetch", !.pair = Some(lp)]]
        /\ UNCHANGED <<applied, mapVars, cacheVars, reqVars, mlVars>>

\* google_places_service.py 47-89: the awaited POST and the GeocodedLocation built
\* from its first place; every other response ends the call with None.
ProcFetch(i, r) ==
    /\ procs[i].pc = "fetch"
    /\ procs' = [procs EXCEPT ![i] =
            IF r.kind = "place"
            THEN [procs[i] EXCEPT !.pc = "save",
                                  !.geocoded = Some(GeocodedFrom(procs[i].pair[1], r.place[1]))]
            ELSE [procs[i] EXCEPT !.pc = "done"]]
    /\ UNCHANGED <<applied, mapVars, cacheVars, reqVars, mlVars>>

\* google_places_service.py 91-93: the awaited save. The store applies one
\* update_one at a time; one that raises (a DuplicateKeyError of the unique index
\* cache_key_1 included) is logged by the repository and changes nothing.
ProcSave(i, saveOk) ==
    LET lp == procs[i].pair[1]
        geocoded == procs[i].geocoded[1]
        key == _generate_geocode_cache_key(lp[1], lp[2])
    IN  /\ procs[i].pc = "save"
        /\ locations_cache' = save_geocoded_location(locations_cache, lp[1], lp[2], geocoded,
                                                     Some(DefaultTtl), now, saveOk)
        /\ applied' = IF saveOk
                      THEN Append(applied, cache_document(key, geocoded, Some(DefaultTtl), now))
                      ELSE applied
        /\ procs' = [procs EXCEPT ![i] = [procs[i] EXCEPT !.pc = "done", !.result = Some(geocoded)]]
        /\ UNCHANGED <<mapVars, settings, now, ticks, lastOp, lastLive, reqVars, mlVars>>

InitConcurrent ==
    /\ InitCacheVars
    /\ locations_cache = [k \in CacheKeys |-> None]
    /\ InitReqVars
    /\ InitMapVars
    /\ procs = [i \in Procs |-> IdleProc]
    /\ applied = <<>>
    /\ InitMlLoaded

\* Concurrent geocode_location calls on one store, interleaved at their awaits.
NextConcurrent ==
    \/ \E i \in Procs, lp \in LocationPairs, ok \in BOOLEAN : ProcGet(i, lp, ok)
    \/ \E i \in Procs, r \in PlacesResponses : ProcFetch(i, r)
    \/ \E i \in Procs, ok \in BOOLEAN : ProcSave(i, ok)
    \/ Tick(1)

SpecConcurrent == InitConcurrent /\ [][NextConcurrent]_vars

\* ------------------------------------------------------------ PredictAQIUseCase.execute

\* Date strings a caller may send; strptime(s, "%Y-%m-%d") accepts the first only.
DateInputs == {"2025-05-21", "2025-02-30", "21/05/2025"}

strptime_ok_Any(s) == TRUE

strptime_ok(s) == s = "2025-05-21"

RequestInputs ==
    [prediction_date_str : DateInputs, pollutants_data : PollutantInputs,
     location_data : LocationPairs, auto_fill_missing : BOOLEAN]

NewLocationContext_Located(lp) ==
    [country |-> lp[1], city |-> lp[2], latitude |-> Some(0), longitude |-> Some(0),
     formatted_address |-> None, place_id |-> None]

\* Lines 128-135.
NewLocationContext(lp) ==
    [country |-> lp[1], city |-> lp[2], latitude |-> None, longitude |-> None,
     formatted_address |-> None, place_id |-> None]

SetLocation_Rename(location, geocoded_loc) ==
    [location EXCEPT !.latitude = Some(geocoded_loc.latitude),
                     !.longitude = Some(geocoded_loc.longitude),
                     !.formatted_address = Some(geocoded_loc.formatted_address),
                     !.place_id = Some(geocoded_loc.place_id),
                     !.city = geocoded_loc.formatted_address]

SetLocation_LatitudeOnly(location, geocoded_loc) ==
    [location EXCEPT !.latitude = Some(geocoded_loc.latitude)]

\* Lines 66-70: the location context passed in takes the geocoder's answer.
SetLocation(location, geocoded_loc) ==
    [location EXCEPT !.latitude = Some(geocoded_loc.latitude),
                     !.longitude = Some(geocoded_loc.longitude),
                     !.formatted_address = Some(geocoded_loc.formatted_address),
                     !.place_id = Some(geocoded_loc.place_id)]

\* Lines 141-149 of execute, given what _auto_fill_pollutants returned.
AfterAutoFill(ret, initial) ==
    /\ autofill_ret' = Some(ret)
    /\ final_pollutants' = IF ret.used # None THEN ret.pollutants ELSE initial
    /\ used_measurements_info' = ret.used
    /\ geocoded_location_details' = ret.geocoded
    /\ pc' = "infer"

\* execute up to its first await: the date is parsed, the domain objects are
\* built, and _auto_fill_pollutants runs to its early return or to the geocoder.
ExecuteBegin(r) ==
    /\ pc = "idle"
    /\ req' = Some(r)
    /\ UNCHANGED <<concVars, mapVars, cacheVars, mlVars, input_df, X_infer, prediction_result_obj, predictions,
                   returned, calls, faults, external_aq_data, geocoded_loc_details>>
    /\ IF ~strptime_ok(r.prediction_date_str)
       THEN /\ outcome' = "ValueError"
            /\ pc' = "done"
            /\ UNCHANGED <<initial_pollutants, location_context, autofill_ret, final_pollutants,
                           used_measurements_info, geocoded_location_details>>
       ELSE /\ initial_pollutants' = r.pollutants_data
            /\ location_context' = Some(NewLocationContext(r.location_data))
            /\ outcome' = outcome
            /\ IF ~r.auto_fill_missing
               THEN /\ final_pollutants' = r.pollutants_data
                    /\ pc' = "infer"
                    /\ UNCHANGED <<autofill_ret, used_measurements_info, geocoded_location_details>>
               ELSE IF ~needs_filling(r.pollutants_data)
               THEN AfterAutoFill([pollutants |-> r.pollutants_data, used |-> None, geocoded |-> None],
                                  r.pollutants_data)
               ELSE /\ pc' = "geocode"
                    /\ final_pollutants' = r.pollutants_data
                    /\ UNCHANGED <<autofill_ret, used_measurements_info, geocoded_location_details>>

\* Lines 61-71: the geocoder is awaited and the location context takes its answer.
AutoFillGeocode(env) ==
    /\ pc = "geocode"
    /\ LET lc == location_context[1]
           g == geocode_location(settings, locations_cache, lc.country, lc.city, env, now)
       IN  /\ locations_cache' = g.cache
           /\ calls' = [calls EXCEPT !.geocode = @ + 1, !.cache_get = @ + g.n.cache_get,
                                     !.cache_set = @ + g.n.cache_set,
                                     !.live_geocoder = @ + g.n.live_geocoder]
           /\ faults' = faults
                \cup (IF g.n.cache_get = 1 /\ ~env.getOk THEN {"cache_get"} ELSE {})
                \cup (IF g.n.cache_set = 1 /\ ~env.saveOk THEN {"cache_set"} ELSE {})
                \cup (IF g.n.live_geocoder = 1 /\ env.response.kind \in {"http_status_error", "request_error"}
                      THEN {"geocoder"} ELSE {})
           /\ IF g.raised
              THEN /\ outcome' = "Exception"
                   /\ pc' = "done"
                   /\ UNCHANGED <<location_context, geocoded_loc_details, autofill_ret, final_pollutants,
                                  used_measurements_info, geocoded_location_details>>
              ELSE IF g.result = None
              THEN /\ AfterAutoFill([pollutants |-> initial_pollutants, used |-> None, geocoded |-> None],
                                      initial_pollutants)
                   /\ UNCHANGED <<location_context, geocoded_loc_details, outcome>>
              ELSE /\ location_context' = Some(SetLocation(lc, g.result[1]))
                   /\ geocoded_loc_details' = g.result
                   /\ pc' = "fetch"
                   /\ UNCHANGED <<autofill_ret, final_pollutants, used_measurements_info,
                                  geocoded_location_details, outcome>>
    /\ UNCHANGED <<concVars, mapVars, settings, now, ticks, lastOp, lastLive, mlVars, req, initial_pollutants,
                   external_aq_data, input_df, X_infer, prediction_result_obj, predictions, returned>>

\* Lines 80-110: the live reading is awaited and the missing fields are filled.
AutoFillFetch(r) ==
    /\ pc = "fetch"
    /\ LET a == get_current_air_quality(settings, r, now)
       IN  /\ calls' = [calls EXCEPT !.air_quality = @ + a.n]
           /\ faults' = faults
                \cup (IF a.n = 1 /\ r.kind \in {"http_status_error", "request_error", "parse_error"}
                      THEN {"air_quality"} ELSE {})
           /\ external_aq_data' = a.result
           /\ IF a.raised
              THEN /\ outcome' = "Exception"
                   /\ pc' = "done"
                   /\ UNCHANGED <<autofill_ret, final_pollutants, used_measurements_info,
                                  geocoded_location_details>>
              ELSE /\ outcome' = outcome
                   /\ IF a.result = None
                      THEN AfterAutoFill([pollutants |-> initial_pollutants, used |-> None,
                                          geocoded |-> geocoded_loc_details], initial_pollutants)
                      ELSE AfterAutoFill(AutoFillFromReading(initial_pollutants, a.result[1],
                                                             geocoded_loc_details), initial_pollutants)
    /\ UNCHANGED <<concVars, mapVars, cacheVars, mlVars, req, initial_pollutants, location_context, geocoded_loc_details,
                   input_df, X_infer, prediction_result_obj, predictions, returned>>

\* Lines 152-175: the frame is built from final_pollutants and the model is asked.
ExecuteInfer(o) ==
    /\ pc = "infer"
    /\ input_df' = Some([date |-> req[1].prediction_date_str, pollutants |-> final_pollutants,
                         country |-> location_context[1].country, loc |-> location_context[1].city])
    /\ LET m == get_aqi_prediction(Bundle, files, o)
       IN  /\ model' = m.bundle.model
           /\ le_country' = m.bundle.le_country
           /\ le_loc' = m.bundle.le_loc
           /\ le_cat' = m.bundle.le_cat
           /\ loaded' = m.bundle.loaded
           /\ loadResult' = IF m.load = "noop" THEN loadResult ELSE m.load
           /\ prediction_result_obj' = m.result
           /\ X_infer' = IF m.bundle.loaded
                         THEN Some(prepare_data_for_model(
                                  base_feature_engineering(DataFrame(input_df'[1]), m.bundle.le_country,
                                                           m.bundle.le_loc, now)))
                         ELSE None
           /\ IF m.raised
              THEN outcome' = "RuntimeError: ML model prediction failed" /\ pc' = "done"
              ELSE outcome' = outcome /\ pc' = "save"
    /\ UNCHANGED <<concVars, mapVars, cacheVars, files, server, req, initial_pollutants, location_context, geocoded_loc_details,
                   external_aq_data, autofill_ret, final_pollutants, used_measurements_info,
                   geocoded_location_details, predictions, returned, calls, faults>>

PredictionToStore_FinalInputs ==
    LET lc == location_context[1]
    IN  [date |-> req[1].prediction_date_str,
         input_data |-> [date |-> req[1].prediction_date_str, pollutants |-> final_pollutants,
                         country |-> req[1].location_data[1], loc |-> req[1].location_data[2],
                         auto_fill_pollutants |-> req[1].auto_fill_missing],
         predicted_category |-> prediction_result_obj[1].predicted_category,
         location_info |->
            IF lc.latitude # None /\ lc.longitude # None
            THEN Some([latitude |-> lc.latitude[1], longitude |-> lc.longitude[1],
                       formatted_address |-> lc.formatted_address, display_name |-> lc.city,
                       place_id |-> lc.place_id,
                       source |-> IF geocoded_location_details # None
                                  THEN geocoded_location_details[1].source_api
                                  ELSE "geocoding_service"])
            ELSE None,
         used_measurements |-> used_measurements_info,
         timestamp |-> now]

\* Lines 178-211: the record to store.
PredictionToStore ==
    LET lc == location_context[1]
    IN  [date |-> req[1].prediction_date_str,
         input_data |-> [date |-> req[1].prediction_date_str, pollutants |-> initial_pollutants,
                         country |-> req[1].location_data[1], loc |-> req[1].location_data[2],
                         auto_fill_pollutants |-> req[1].auto_fill_missing],
         predicted_category |-> prediction_result_obj[1].predicted_category,
         location_info |->
            IF lc.latitude # None /\ lc.longitude # None
            THEN Some([latitude |-> lc.latitude[1], longitude |-> lc.longitude[1],
                       formatted_address |-> lc.formatted_address, display_name |-> lc.city,
                       place_id |-> lc.place_id,
                       source |-> IF geocoded_location_details # None
                                  THEN geocoded_location_details[1].source_api
                                  ELSE "geocoding_service"])
            ELSE None,
         used_measurements |-> used_measurements_info,
         timestamp |-> now]

ExecuteSave_Swallow(storeOk) ==
    /\ pc = "save"
    /\ IF storeOk
       THEN /\ predictions' = Append(predictions, PredictionToStore)
            /\ returned' = Some([id |-> Len(predictions) + 1, record |-> PredictionToStore])
       ELSE UNCHANGED <<predictions, returned>>
    /\ outcome' = "ok"
    /\ pc' = "done"
    /\ UNCHANGED <<concVars, mapVars, cacheVars, mlVars, req, initial_pollutants, location_context,
                   geocoded_loc_details, external_aq_data, autofill_ret, final_pollutants,
                   used_measurements_info, geocoded_location_details, input_df, X_infer,
                   prediction_result_obj, calls, faults>>

\* Lines 213-225: the record is saved and returned with its id, or the failure
\* of the store leaves execute as a RuntimeError.
ExecuteSave(storeOk) ==
    /\ pc = "save"
    /\ IF storeOk
       THEN /\ predictions' = Append(predictions, PredictionToStore)
            /\ returned' = Some([id |-> Len(predictions) + 1, record |-> PredictionToStore])
            /\ outcome' = "ok"
       ELSE /\ outcome' = "RuntimeError: Failed to save prediction"
            /\ UNCHANGED <<predictions, returned>>
    /\ pc' = "done"
    /\ UNCHANGED <<concVars, mapVars, cacheVars, mlVars, req, initial_pollutants, location_context, geocoded_loc_details,
                   external_aq_data, autofill_ret, final_pollutants, used_measurements_info,
                   geocoded_location_details, input_df, X_infer, prediction_result_obj, calls, faults>>

\* The cache as an earlier request may have left it: empty, or holding a live entry.
InitialCaches ==
    {[k \in CacheKeys |-> None]}
    \cup {save_geocoded_location([k \in CacheKeys |-> None], lp[1], lp[2], GeocodedFrom(lp, p),
                                 Some(DefaultTtl), 0, TRUE) : lp \in {<<"Indonesia", "Jakarta">>}, p \in Places}

Init ==
    /\ InitCacheVars
    /\ locations_cache \in InitialCaches
    /\ InitReqVars
    /\ InitMapVars
    /\ InitConcVars
    /\ InitMlLoaded

\* The execute call is followed with a classifier that answers with one
\* probability per label of the encoder; the other lengths are taken up by the
\* Predict step of SpecLoad.
Next ==
    \/ \E r \in RequestInputs : ExecuteBegin(r)
    \/ \E env \in GeocodeEnvs : AutoFillGeocode(env)
    \/ \E r \in AirQualityResponses : AutoFillFetch(r)
    \/ \E o \in {x \in InferenceOutcomes : Len(x.pred_proba) \in {0, Len(le_cat_classes)}} : ExecuteInfer(o)
    \/ \E ok \in BOOLEAN : ExecuteSave(ok)

Spec == Init /\ [][Next]_vars

\* ------------------------------------------------------------ loading the artifacts

FileStates == {"ok", "missing", "corrupt"}

SetBundle(b) ==
    /\ model' = b.model
    /\ le_country' = b.le_country
    /\ le_loc' = b.le_loc
    /\ le_cat' = b.le_cat
    /\ loaded' = b.loaded

\* The startup hook (or any caller) asks the repository to load the artifacts.
LoadResources ==
    /\ LET l == load_resources(Bundle, files)
       IN  /\ SetBundle(l.bundle)
           /\ loadResult' = l.result
    /\ UNCHANGED <<concVars, mapVars, cacheVars, reqVars, files, server>>

\* _model_resources.load() called directly.
LoadDirect ==
    /\ LET l == load(Bundle, files)
       IN  /\ SetBundle(l.bundle)
           /\ loadResult' = l.result
    /\ UNCHANGED <<concVars, mapVars, cacheVars, reqVars, files, server>>

\* load_ml_resources() called directly.
LoadMlResources ==
    /\ LET l == load_ml_resources(Bundle, files)
       IN  /\ SetBundle(l.bundle)
           /\ loadResult' = l.result
    /\ UNCHANGED <<concVars, mapVars, cacheVars, reqVars, files, server>>

\* A prediction is asked of the repository; an unloaded bundle is loaded first.
Predict(o) ==
    /\ LET m == get_aqi_prediction(Bundle, files, o)
       IN  /\ SetBundle(m.bundle)
           /\ loadResult' = m.load
           /\ prediction_result_obj' = m.result
           /\ outcome' = IF m.raised THEN "RuntimeError" ELSE "ok"
    /\ UNCHANGED <<concVars, mapVars, cacheVars, files, server, pc, req, initial_pollutants, location_context, geocoded_loc_details,
                   external_aq_data, autofill_ret, final_pollutants, used_measurements_info,
                   geocoded_location_details, input_df, X_infer, predictions, returned, calls, faults>>

\* The model store changes on disk between calls.
StoreChanges(f, st) ==
    /\ files[f] # st
    /\ files' = [files EXCEPT ![f] = st]
    /\ loadResult' = "none"
    /\ UNCHANGED <<concVars, mapVars, cacheVars, reqVars, model, le_country, le_loc, le_cat, loaded, server>>

\* ModelResources.__init__: nothing held, not loaded; the store in any condition.
InitLoad ==
    /\ InitCacheVars
    /\ locations_cache = [k \in CacheKeys |-> None]
    /\ InitReqVars
    /\ InitMapVars
    /\ InitConcVars
    /\ model = "None"
    /\ le_country = "None"
    /\ le_loc = "None"
    /\ le_cat = "None"
    /\ loaded = FALSE
    /\ files \in [ArtifactFiles -> FileStates]
    /\ loadResult = "none"
    /\ server = "starting"

NextLoad ==
    \/ LoadResources
    \/ LoadDirect
    \/ LoadMlResources
    \/ \E o \in InferenceOutcomes : Predict(o)
    \/ \E f \in ArtifactFiles, st \in FileStates : StoreChanges(f, st)

SpecLoad == InitLoad /\ [][NextLoad]_vars

\* ------------------------------------------------------------ startup, then serving

\* The server runs startup_event once, before it accepts a connection.
Startup(mongoOk) ==
    /\ server = "starting"
    /\ LET u == startup_event(Bundle, files, mongoOk)
       IN  /\ SetBundle(u.bundle)
           /\ loadResult' = u.load
           /\ server' = u.server
    /\ UNCHANGED <<concVars, mapVars, cacheVars, reqVars, files>>

\* A request handler of the serving application asks for a prediction.
ServePredict(o) ==
    /\ server = "serving"
    /\ Predict(o)

NextStartup ==
    \/ \E ok \in BOOLEAN : Startup(ok)
    \/ \E o \in InferenceOutcomes : ServePredict(o)
    \/ \E f \in ArtifactFiles, st \in FileStates : StoreChanges(f, st)

SpecStartup == InitLoad /\ [][NextStartup]_vars

\* ------------------------------------------------------------ feature engineering on a frame

BaseRow ==
    [date |-> Some("2025-05-21"), pm25 |-> Num(600), pm10 |-> Num(900), o3 |-> Num(300),
     no2 |-> Num(200), so2 |-> Num(100), co |-> Num(5), country |-> "Indonesia", loc |-> "Jakarta"]

\* Rows that vary the pollutant cells: pm25 and pm10 independently, or all six alike.
PollutantRows ==
    {[BaseRow EXCEPT !.pm25 = a, !.pm10 = b] : a \in RawValues, b \in RawValues}
    \cup {[BaseRow EXCEPT !.pm25 = v, !.pm10 = v, !.o3 = v, !.no2 = v, !.so2 = v, !.co = v] : v \in RawValues}

DateRows == {[BaseRow EXCEPT !.date = d] : d \in DateCells}

LabelRows ==
    {[BaseRow EXCEPT !.country = c, !.loc = l] :
        c \in {"Indonesia", "Malaysia", "indonesia"}, l \in {"Jakarta", "Bandung", "jakarta"}}

\* Columns a frame may lack.
AbsentChoices == {{}, {"date"}, {"pm10"}, {"country", "loc"}, Pollutants}

\* One-row frames over all the rows, and frames of up to MaxRows rows that
\* vary the date column.
Frames ==
    {[absent |-> a, rows |-> <<r>>] : a \in AbsentChoices, r \in PollutantRows \cup DateRows \cup LabelRows}
    \cup {[absent |-> {}, rows |-> rs] : rs \in UNION {[1..k -> DateRows] : k \in 1..MaxRows}}

\* The clock at a Thursday midnight and at the Saturday after it.
Clocks == {0, 2 * 86400}

\* predict_aqi_category lines 103-110 on a frame, with the encoders loaded.
EngineerFeatures ==
    /\ X_infer = None
    /\ X_infer' = Some(prepare_data_for_model(
                          base_feature_engineering(input_df[1], le_country, le_loc, now)))
    /\ UNCHANGED <<concVars, mapVars, cacheVars, mlVars, pc, req, initial_pollutants, location_context, geocoded_loc_details,
                   external_aq_data, autofill_ret, final_pollutants, used_measurements_info,
                   geocoded_location_details, input_df, prediction_result_obj, predictions, outcome,
                   returned, calls, faults>>

InitFeatures ==
    /\ settings \in SettingsSet
    /\ now \in Clocks
    /\ ticks = 0
    /\ lastOp = NoOp
    /\ lastLive = [lp \in LocationPairs |-> None]
    /\ locations_cache = [k \in CacheKeys |-> None]
    /\ pc = "idle"
    /\ req = None
    /\ initial_pollutants = None
    /\ location_context = None
    /\ geocoded_loc_details = None
    /\ external_aq_data = None
    /\ autofill_ret = None
    /\ final_pollutants = None
    /\ used_measurements_info = None
    /\ geocoded_location_details = None
    /\ input_df \in {Some(df) : df \in Frames}
    /\ X_infer = None
    /\ prediction_result_obj = None
    /\ predictions = <<>>
    /\ outcome = "running"
    /\ returned = None
    /\ calls = NoRequestCalls
    /\ faults = {}
    /\ InitMapVars
    /\ InitConcVars
    /\ InitMlLoaded

NextFeatures == EngineerFeatures

SpecFeatures == InitFeatures /\ [][NextFeatures]_vars

\* ------------------------------------------------------------ heatmap aggregation
MaxDocs == 2

to_float_Lenient(x) == Some(x)

\* float(x) of a stored cell: None here stands for the ValueError it raises.
to_float(x) ==
    IF x.k = "num" THEN Some(x)
    ELSE IF x.k = "numstr" THEN Some(Num(x.v))
    ELSE None

\* str.lower on the display names that occur.
display_name_lower(name) ==
    IF name \in {"Universal AQI", "universal aqi"} THEN "universal aqi" ELSE name

\* next((idx for idx in aqi_indexes_raw if isinstance(idx, dict) and
\* idx.get("display_name", "").lower() == "universal aqi"), None): a display_name
\* stored as None raises AttributeError when the scan reaches it.
RECURSIVE universal_aqi(_)
universal_aqi(aqi_indexes_raw) ==
    IF aqi_indexes_raw = <<>> THEN [raised |-> FALSE, idx |-> None]
    ELSE LET idx == Head(aqi_indexes_raw)
         IN  IF ~idx.dict THEN universal_aqi(Tail(aqi_indexes_raw))
             ELSE IF idx.display_name = None THEN [raised |-> TRUE, idx |-> None]
             ELSE IF display_name_lower(idx.display_name[1]) = "universal aqi"
             THEN [raised |-> FALSE, idx |-> Some(idx)]
             ELSE universal_aqi(Tail(aqi_indexes_raw))

\* Lines 171-180 of get_all_current_conditions_for_map: the aqi of one document.
aqi_value(external_data_details_raw) ==
    LET raw == external_data_details_raw.aqi_indexes
        conv(cell) == [raised |-> to_float(cell[1]) = None, value |-> to_float(cell[1])]
    IN  IF raw = None \/ raw = Some(<<>>) THEN [raised |-> FALSE, value |-> None]
        ELSE LET u == universal_aqi(raw[1])
                 first == raw[1][1]
             IN  IF u.raised THEN [raised |-> TRUE, value |-> None]
                 ELSE IF u.idx # None /\ u.idx[1].aqi # None THEN conv(u.idx[1].aqi)
                 ELSE IF ~first.dict THEN [raised |-> TRUE, value |-> None]
                 ELSE IF first.aqi # None THEN conv(first.aqi)
                 ELSE IF first.aqi_value # None THEN conv(first.aqi_value)
                 ELSE [raised |-> FALSE, value |-> None]

\* The body of the loop of get_all_current_conditions_for_map for one document:
\* the point appended, or None when the document is skipped by a continue or by
\* one of the two except clauses of the loop.
current_conditions_point(doc) ==
    IF doc.location = None \/ ~doc.location[1].dict
       \/ doc.external_data_details = None \/ ~doc.external_data_details[1].dict
    THEN None
    ELSE LET latitude == doc.location[1].latitude
             longitude == doc.location[1].longitude
         IN  IF latitude = None \/ longitude = None THEN None
             ELSE LET a == aqi_value(doc.external_data_details[1])
                  IN  IF a.raised \/ a.value = None THEN None
                      ELSE IF to_float(latitude[1]) = None \/ to_float(longitude[1]) = None THEN None
                      ELSE Some([latitude |-> to_float(latitude[1])[1],
                                 longitude |-> to_float(longitude[1])[1],
                                 aqi |-> a.value[1]])

\* heatmap_data_points after the loop: the points of the documents that gave
\* one, in cursor order.
RECURSIVE PointsOf(_)
PointsOf(appended) ==
    IF appended = <<>> THEN <<>>
    ELSE (IF Head(appended) = None THEN <<>> ELSE <<Head(appended)[1]>>) \o PointsOf(Tail(appended))

\* get_all_current_conditions_for_map: a failure of the cursor is the only
\* thing that leaves as a ConnectionError.
get_all_current_conditions_for_map(docs, dbOk) ==
    IF ~dbOk THEN [op |-> "current_conditions", raised |-> TRUE, points |-> <<>>]
    ELSE [op |-> "current_conditions", raised |-> FALSE,
          points |-> PointsOf([i \in 1..Len(docs) |-> current_conditions_point(docs[i])])]

\* _map_doc_to_stored_prediction: StoredPrediction.model_validate coerces numeric
\* text to float; a document that does not validate maps to None.
_map_doc_to_stored_prediction(doc) ==
    LET coord_ok(cell) == cell = None \/ to_float(cell[1]) # None
        coerce(cell) == IF cell = None THEN None ELSE to_float(cell[1])
    IN  IF ~doc.other_fields_valid THEN None
        ELSE IF doc.location_info = None THEN Some(doc)
        ELSE IF ~coord_ok(doc.location_info[1].latitude) \/ ~coord_ok(doc.location_info[1].longitude)
        THEN None
        ELSE Some([doc EXCEPT !.location_info =
                       Some([latitude |-> coerce(doc.location_info[1].latitude),
                             longitude |-> coerce(doc.location_info[1].longitude)])])

\* Lines 124-133: the representative aqi of a category, in units; 0 for a
\* category outside the six.
category_aqi(predicted_category) ==
    CASE predicted_category = "Good" -> Num(25)
      [] predicted_category = "Moderate" -> Num(75)
      [] predicted_category = "Unhealthy for Sensitive Groups" -> Num(125)
      [] predicted_category = "Unhealthy" -> Num(175)
      [] predicted_category = "Very Unhealthy" -> Num(250)
      [] predicted_category = "Hazardous" -> Num(350)
      [] OTHER -> Num(0)

\* The body of the loop of get_all_predictions_for_map for one document.
prediction_point(doc) ==
    LET stored_pred == _map_doc_to_stored_prediction(doc)
    IN  IF stored_pred # None /\ stored_pred[1].location_info # None
           /\ stored_pred[1].location_info[1].latitude # None
           /\ stored_pred[1].location_info[1].longitude # None
        THEN Some([latitude |-> stored_pred[1].location_info[1].latitude[1],
                   longitude |-> stored_pred[1].location_info[1].longitude[1],
                   aqi |-> category_aqi(stored_pred[1].predicted_category)])
        ELSE None

get_all_predictions_for_map(docs, dbOk) ==
    IF ~dbOk THEN [op |-> "predictions", raised |-> TRUE, points |-> <<>>]
    ELSE [op |-> "predictions", raised |-> FALSE,
          points |-> PointsOf([i \in 1..Len(docs) |-> prediction_point(docs[i])])]

\* One entry of aqi_indexes as save_current_conditions writes it, the
\* model_dump(mode='json') of an ExternalAQIIndexInfo: name, aqi_value, category
\* and dominant_pollutant, so neither a display_name key (read as "") nor an aqi key.
model_dump_aqi_index(value) ==
    [dict |-> TRUE, display_name |-> Some(""), aqi |-> None, aqi_value |-> Some(Num(value))]

\* One entry of aqi_indexes as the Air Quality API answer stored it.
GoodIdx == [dict |-> TRUE, display_name |-> Some("Universal AQI"), aqi |-> Some(Num(69)), aqi_value |-> None]

\* The aqi_indexes values of the stored documents: absent, empty, well formed,
\* and the malformed shapes the loop's conditions and except clauses are for.
AqiIndexLists ==
    {None, Some(<<>>), Some(<<GoodIdx>>),
     Some(<<[GoodIdx EXCEPT !.display_name = Some("AQI (US)"), !.aqi = Some(Num(42))], GoodIdx>>),
     Some(<<model_dump_aqi_index(42)>>),
     Some(<<[GoodIdx EXCEPT !.display_name = Some("AQI (US)"), !.aqi = Some(Num(42))],
            [GoodIdx EXCEPT !.aqi = Some(NonNumeric)]>>),
     Some(<<[GoodIdx EXCEPT !.display_name = Some("AQI (US)"), !.aqi = None]>>),
     Some(<<[GoodIdx EXCEPT !.aqi = None], [GoodIdx EXCEPT !.display_name = Some("AQI (US)")]>>),
     Some(<<[GoodIdx EXCEPT !.aqi = Some(NumericString(69))]>>),
     Some(<<[GoodIdx EXCEPT !.aqi = Some(NonNumeric)]>>),
     Some(<<[GoodIdx EXCEPT !.display_name = None]>>),
     Some(<<[GoodIdx EXCEPT !.dict = FALSE]>>)}

\* Coordinates as stored: numbers, numeric text, other text, or None.
Coordinates ==
    {[dict |-> TRUE, latitude |-> lat, longitude |-> Some(Num(1068))] :
        lat \in {None, Some(Num(-62)), Some(NumericString(-62)), Some(NonNumeric)}}
    \cup {[dict |-> TRUE, latitude |-> Some(Num(-62)), longitude |-> lon] : lon \in {None, Some(NonNumeric)}}

GoodLocation == [dict |-> TRUE, latitude |-> Some(Num(-62)), longitude |-> Some(Num(1068))]

\* Documents of the current-conditions collection.
CurrentConditionsDocs ==
    {[location |-> Some(GoodLocation), external_data_details |-> Some([dict |-> TRUE, aqi_indexes |-> a])] :
        a \in AqiIndexLists}
    \cup {[location |-> l, external_data_details |-> e] :
            l \in {None, Some([GoodLocation EXCEPT !.dict = FALSE])} \cup {Some(c) : c \in Coordinates},
            e \in {None, Some([dict |-> FALSE, aqi_indexes |-> None]),
                   Some([dict |-> TRUE, aqi_indexes |-> Some(<<GoodIdx>>)])}}

\* Documents of the predictions collection: other_fields_valid says whether the
\* fields besides location_info pass StoredPrediction's validation.
PredictionDocs ==
    {[other_fields_valid |-> v, predicted_category |-> c,
      location_info |-> Some([latitude |-> Some(Num(-62)), longitude |-> Some(Num(1068))])] :
        v \in BOOLEAN, c \in {"Good", "Hazardous", "Severe"}}
    \cup {[other_fields_valid |-> TRUE, predicted_category |-> "Moderate", location_info |-> l] :
            l \in {None} \cup {Some([latitude |-> c.latitude, longitude |-> c.longitude]) : c \in Coordinates}}

\* GET of the current-conditions heatmap.
GetAllCurrentConditionsForMap(dbOk) ==
    /\ heatmap_data_points' = Some(get_all_current_conditions_for_map(current_conditions, dbOk))
    /\ UNCHANGED <<concVars, cacheVars, reqVars, mlVars, current_conditions>>

\* GET of the predictions heatmap.
GetAllPredictionsForMap(dbOk) ==
    /\ heatmap_data_points' = Some(get_all_predictions_for_map(predictions, dbOk))
    /\ UNCHANGED <<concVars, cacheVars, reqVars, mlVars, current_conditions>>

\* Either collection holds up to MaxDocs documents of any of the shapes.
InitHeatmap ==
    /\ InitCacheVars
    /\ locations_cache = [k \in CacheKeys |-> None]
    /\ pc = "idle"
    /\ req = None
    /\ initial_pollutants = None
    /\ location_context = None
    /\ geocoded_loc_details = None
    /\ external_aq_data = None
    /\ autofill_ret = None
    /\ final_pollutants = None
    /\ used_measurements_info = None
    /\ geocoded_location_details = None
    /\ input_df = None
    /\ X_infer = None
    /\ prediction_result_obj = None
    /\ outcome = "running"
    /\ returned = None
    /\ calls = NoRequestCalls
    /\ faults = {}
    /\ InitMlLoaded
    /\ heatmap_data_points = None
    /\ InitConcVars
    /\ \/ current_conditions \in SeqsUpTo(CurrentConditionsDocs, MaxDocs) /\ predictions = <<>>
       \/ current_conditions = <<>> /\ predictions \in SeqsUpTo(PredictionDocs, MaxDocs)

NextHeatmap ==
    \/ \E dbOk \in BOOLEAN : GetAllCurrentConditionsForMap(dbOk)
    \/ \E dbOk \in BOOLEAN : GetAllPredictionsForMap(dbOk)

SpecHeatmap == InitHeatmap /\ [][NextHeatmap]_vars

\* ------------------------------------------------------------ claims: auto-fill

\* The values a parsed live reading carries for pollutant p.
LiveValues(aq, p) ==
    {aq.pollutants[i].concentration[1].value[1] :
        i \in {j \in 1..Len(aq.pollutants) :
                 aq.pollutants[j].code = p /\ aq.pollutants[j].concentration[1].value # None}}

\* The pollutants the caller left out for which the live reading has a value.
Fillable(aq) == {p \in Pollutants : initial_pollutants[p] = None /\ LiveValues(aq, p) # {}}

Supplied == {p \in Pollutants : initial_pollutants[p] # None}

AutoFillRequested == req # None /\ req[1].auto_fill_missing /\ autofill_ret # None

\* C1: every pollutant the caller supplied has the caller's value in what
\* _auto_fill_pollutants returns and in the pollutants execute hands to inference,
\* whatever the live reading carried for it.
C1_SuppliedNeverOverwritten ==
    /\ autofill_ret # None => \A p \in Supplied : autofill_ret[1].pollutants[p] = initial_pollutants[p]
    /\ input_df # None => \A p \in Supplied : input_df[1].pollutants[p] = initial_pollutants[p]

\* A request went to inference after a fill, and the live reading carried a
\* different value for a pollutant the caller had supplied.
C1_Witness ==
    /\ input_df # None
    /\ used_measurements_info # None
    /\ external_aq_data # None
    /\ \E p \in Supplied : \E v \in LiveValues(external_aq_data[1], p) : Some(v) # initial_pollutants[p]

C3_FillExact ==
    (AutoFillRequested /\ geocoded_loc_details # None /\ external_aq_data # None) =>
        LET aq == external_aq_data[1]
            used == used_measurements_info
        IN  /\ \A p \in Fillable(aq) :
                  final_pollutants[p] # None /\ final_pollutants[p][1] \in LiveValues(aq, p)
            /\ \A p \in Pollutants \ Fillable(aq) : final_pollutants[p] = initial_pollutants[p]
            /\ Fillable(aq) # {} => used # None
            /\ used # None =>
                  /\ DOMAIN used[1].pollutants = Fillable(aq)
                  /\ \A p \in Fillable(aq) : Some(used[1].pollutants[p]) = final_pollutants[p]
                  /\ used[1].source = SourceLabel
                  /\ used[1].timestamp = aq.fetch_timestamp

\* C4: when the geocoder gives no location, or the fetch gives no reading, or
\* the reading has a value for none of the missing pollutants, the pollutants
\* come back unchanged with no provenance record, inference runs on the caller's
\* pollutants and the enrichment does not end the request.
C4_NothingToFill ==
    (/\ AutoFillRequested
     /\ Supplied # Pollutants
     /\ \/ geocoded_loc_details = None
        \/ external_aq_data = None
        \/ Fillable(external_aq_data[1]) = {}) =>
        /\ autofill_ret[1].pollutants = initial_pollutants
        /\ autofill_ret[1].used = None
        /\ final_pollutants = initial_pollutants
        /\ used_measurements_info = None
        /\ input_df # None => input_df[1].pollutants = initial_pollutants
        /\ outcome # "Exception"
        /\ outcome = "ok" => returned # None /\ returned[1].record.used_measurements = None

\* C5: a failure of the geocode provider, of the geocode cache or of the
\* air-quality provider never leaves execute as an exception; the request goes on
\* and, when the provider that failed was the geocoder or the air-quality
\* service, the prediction is computed on the caller's pollutants.
C5_CollaboratorFailuresCaught ==
    faults # {} =>
        /\ outcome # "Exception"
        /\ pc \in {"fetch", "infer", "save", "done"}
        /\ (faults \cap {"geocoder", "air_quality"} # {}) =>
              /\ autofill_ret # None
              /\ autofill_ret[1].used = None
              /\ final_pollutants = initial_pollutants
        /\ pc = "done" =>
              outcome \in {"ok", "RuntimeError: ML model prediction failed",
                           "RuntimeError: Failed to save prediction"}

\* The cache failed on read and on write, the air-quality provider failed, and
\* execute returned a prediction.
C5_Witness ==
    /\ faults = {"cache_get", "cache_set", "air_quality"}
    /\ outcome = "ok"
    /\ returned # None

\* C6: with auto_fill false, or with all six pollutants supplied, a request makes
\* no geocoding call, no cache read or write and no air-quality fetch, inference
\* gets the caller's pollutants and the stored record has no used_measurements.
C6_NoEnrichmentWhenNotNeeded ==
    (/\ req # None
     /\ \/ ~req[1].auto_fill_missing
        \/ (\A p \in Pollutants : req[1].pollutants_data[p] # None)) =>
        /\ calls = NoRequestCalls
        /\ pc \notin {"geocode", "fetch"}
        /\ input_df # None => input_df[1].pollutants = req[1].pollutants_data
        /\ \A i \in 1..Len(predictions) : predictions[i].used_measurements = None
        /\ returned # None => returned[1].record.used_measurements = None

\* A request with auto_fill set and all six pollutants supplied was stored.
C6_Witness ==
    /\ req # None
    /\ req[1].auto_fill_missing
    /\ (\A p \in Pollutants : req[1].pollutants_data[p] # None)
    /\ outcome = "ok"
    /\ Len(predictions) = 1

\* ------------------------------------------------------------ claims: geocode cache

LastKey == _generate_geocode_cache_key(lastOp.pair[1], lastOp.pair[2])

\* The call that has just returned served the held cache entry and did not
\* invoke the live geocoder.
ServedFromCache ==
    /\ ~lastOp.live
    /\ lastOp.held # None
    /\ lastOp.result = CacheHit(lastOp.held)

C8_ExpiredGetReturnsNone ==
    (lastOp.op = "get" /\ lastOp.expired) => lastOp.result = None

\* C9, as claimed: after a stored set(key, value, ttl) the entry holds the value
\* and its expireAt is now + ttl, or it has no expireAt when ttl is None.
C9_SetUpserts ==
    (lastOp.op = "save" /\ lastOp.stored) =>
        LET doc == locations_cache[LastKey]
        IN  /\ doc # None
            /\ doc[1].data = model_dump_json(GeocodedFrom(lastOp.pair, lastOp.place[1]))
            /\ doc[1].expireAt = IF lastOp.ttl = None THEN None ELSE Some(now + lastOp.ttl[1])

\* ------------------------------------------------------------ claims: model artifacts

AllHeld == model = "loaded" /\ le_country = "loaded" /\ le_loc = "loaded" /\ le_cat = "loaded"

\* C10: a load that meets a missing or corrupt artifact ends in an error and
\* leaves the bundle not loaded; a load that reports success leaves it loaded;
\* the bundle is loaded only when all four artifacts are held.
C10_LoadAllOrNothing ==
    /\ loaded => AllHeld
    /\ (loadResult \in {"ok", "RuntimeError"} /\ \E f \in ArtifactFiles : files[f] # "ok") =>
          (loadResult = "RuntimeError" /\ ~loaded)
    /\ loadResult = "ok" => loaded
    /\ loadResult = "RuntimeError" => \E f \in ArtifactFiles : files[f] # "ok"

\* A load failed on the third artifact: the first two were read, the bundle is
\* not loaded.
C10_Witness ==
    /\ loadResult = "RuntimeError"
    /\ ~loaded
    /\ model = "loaded"
    /\ le_country = "loaded"
    /\ files["le_loc"] = "corrupt"

\* C11: once the bundle is loaded, no step of any load or prediction call
\* unloads it or changes one of the four artifacts, and a load call made on the
\* loaded bundle reports that it did nothing.
C11_LoadedOnceThenReadOnly ==
    [][loaded => /\ loaded'
                 /\ model' = model
                 /\ le_country' = le_country
                 /\ le_loc' = le_loc
                 /\ le_cat' = le_cat
                 /\ loadResult' \in {loadResult, "noop", "none"}]_vars

\* A call was made on the loaded bundle after the model store had gone bad, and
\* the bundle is as it was.
C11_Witness ==
    /\ loaded
    /\ AllHeld
    /\ loadResult = "noop"
    /\ \E f \in ArtifactFiles : files[f] # "ok"

StoreBad == \E f \in ArtifactFiles : files[f] # "ok"

\* C12: a prediction asked of an unloaded bundle makes one load attempt; when
\* the attempt fails the call ends in the load's RuntimeError with no result,
\* when it succeeds the bundle is loaded before inference; a result is only ever
\* held while the bundle is loaded.
C12_NoPredictionUnloaded ==
    [][/\ prediction_result_obj' # None => loaded'
       /\ ((\E o \in InferenceOutcomes : Predict(o)) /\ ~loaded /\ StoreBad) =>
             /\ loadResult' = "RuntimeError"
             /\ outcome' = "RuntimeError"
             /\ prediction_result_obj' = None
             /\ ~loaded'
       /\ ((\E o \in InferenceOutcomes : Predict(o)) /\ ~loaded /\ ~StoreBad) =>
             /\ loadResult' = "ok"
             /\ loaded']_vars

\* A prediction was asked of the unloaded bundle, its load attempt failed and
\* the call ended in the error.
C12_Witness ==
    /\ pc = "idle"
    /\ outcome = "RuntimeError"
    /\ loadResult = "RuntimeError"
    /\ ~loaded
    /\ prediction_result_obj = None

\* C13: the application serves only after a startup whose load succeeded, so
\* while it serves the bundle is loaded with all four artifacts; a startup whose
\* load or database connection failed leaves it aborted, and no prediction was
\* served before or after.
C13_ServingOnlyWhenLoaded ==
    /\ server = "serving" => (loaded /\ AllHeld)
    /\ server \in {"starting", "aborted"} => (prediction_result_obj = None /\ outcome = "running")
    /\ (server = "aborted" /\ loadResult # "none") => (loadResult = "RuntimeError" /\ ~loaded)

\* Startup met a bad model store and the application was aborted unloaded.
C13_Witness ==
    /\ server = "aborted"
    /\ loadResult = "RuntimeError"
    /\ ~loaded
    /\ StoreBad

\* ------------------------------------------------------------ claims: feature engineering

\* The frame that was engineered and the rows that came out of it.
FrameIn == input_df[1]

RowsOut == X_infer[1]

Engineered == X_infer # None /\ input_df # None /\ pc = "idle"

\* The declared clip ranges, in tenths.
DeclaredRange ==
    [pm25 |-> 0..5000, pm10 |-> 0..10000, o3 |-> 0..4000, no2 |-> 0..3000, so2 |-> 0..2000, co |-> 0..500]

\* C14: whatever the raw cell was (absent column, None, text, negative, huge,
\* infinite), every pollutant column of every engineered row is a number inside
\* its declared range.
C14_PollutantsClipped ==
    X_infer # None =>
        \A i \in 1..Len(RowsOut) : \A col \in Pollutants :
            /\ RowsOut[i].pollutants[col].k = "num"
            /\ RowsOut[i].pollutants[col].v \in DeclaredRange[col]

\* A row with a negative pm25 and a huge pm10 came out clipped to the two ends.
C14_Witness ==
    /\ Engineered
    /\ FrameIn.absent = {}
    /\ FrameIn.rows[1].pm25 = Num(-50)
    /\ FrameIn.rows[1].pm10 = Num(9000000)
    /\ RowsOut[1].pollutants["pm25"] = Num(0)
    /\ RowsOut[1].pollutants["pm10"] = Num(10000)

\* C15: pm25_pm10_ratio is clipped pm25 over clipped pm10 when clipped pm10 is
\* positive and 0 otherwise; it is never an error, an infinity or a NaN.
C15_RatioGuarded ==
    X_infer # None =>
        \A i \in 1..Len(RowsOut) :
            LET r == RowsOut[i]
            IN  IF r.pollutants["pm10"].v > 0
                THEN r.pm25_pm10_ratio = [k |-> "ratio", num |-> r.pollutants["pm25"].v,
                                          den |-> r.pollutants["pm10"].v]
                ELSE r.pm25_pm10_ratio = [k |-> "ratio", num |-> 0, den |-> 1]

\* pm10 clipped to 0 under a positive pm25, and the ratio is 0.
C15_Witness ==
    /\ Engineered
    /\ FrameIn.absent = {}
    /\ FrameIn.rows[1].pm10 = Num(-50)
    /\ RowsOut[1].pollutants["pm10"].v = 0
    /\ RowsOut[1].pollutants["pm25"].v > 0
    /\ RowsOut[1].pm25_pm10_ratio = [k |-> "ratio", num |-> 0, den |-> 1]

InVocabulary(x, classes) == \E i \in 1..Len(classes) : classes[i] = x

\* The code is the one the claim gives for label x under vocabulary classes.
EncodedAsClaimed(code, x, classes) ==
    IF InVocabulary(x, classes)
    THEN code \in 0..(Len(classes) - 1) /\ inverse_transform(code, classes) = x
    ELSE code = -1

\* C16: for a frame that has the country and loc columns, a label outside the
\* vocabulary is encoded -1 without an error, and a member of the vocabulary is
\* encoded by the code that decodes back to it.
C16_SafeLabelTransform ==
    (X_infer # None /\ input_df # None /\ pc = "idle" /\ {"country", "loc"} \cap FrameIn.absent = {}) =>
        \A i \in 1..Len(RowsOut) :
            /\ EncodedAsClaimed(RowsOut[i].country_encoded, FrameIn.rows[i].country, le_country_classes)
            /\ EncodedAsClaimed(RowsOut[i].loc_encoded, FrameIn.rows[i].loc, le_loc_classes)

\* An unseen country beside a known city: -1 and the city's code.
C16_Witness ==
    /\ Engineered
    /\ {"country", "loc"} \cap FrameIn.absent = {}
    /\ FrameIn.rows[1].country = "indonesia"
    /\ FrameIn.rows[1].loc = "Jakarta"
    /\ RowsOut[1].country_encoded = -1
    /\ RowsOut[1].loc_encoded = 1

\* The date of row i is absent or does not parse.
BadDate(i) ==
    \/ "date" \in FrameIn.absent
    \/ FrameIn.rows[i].date = None
    \/ ~to_datetime_ok(FrameIn.rows[i].date[1])

\* C19, as claimed: every row whose date is absent or does not parse gets the
\* current date's day of the week and the weekend flag that goes with it.
C19_BadDateUsesToday ==
    Engineered =>
        \A i \in 1..Len(RowsOut) :
            BadDate(i) =>
                /\ RowsOut[i].dayofweek = ((now \div 86400) + 3) % 7
                /\ RowsOut[i].is_weekend = IF RowsOut[i].dayofweek \in {5, 6} THEN 1 ELSE 0

\* ------------------------------------------------------------ claims: probability mapping

\* C17, as claimed: whatever the length of the classifier's probability row,
\* the mapping of a produced result has exactly the six category keys, and the
\* i-th label of the category encoder carries the i-th entry of the row.
C17_ExactKeysPaired ==
    [][\A o \in InferenceOutcomes :
          (Predict(o) /\ prediction_result_obj' # None) =>
              /\ DOMAIN prediction_result_obj'[1].probabilities = Categories
              /\ \A i \in 1..Len(le_cat_classes) :
                    prediction_result_obj'[1].probabilities[le_cat_classes[i]] = o.pred_proba[i]]_vars

\* ------------------------------------------------------------ claims: heatmap

\* The documents the last aggregation ran over.
AggregatedDocs ==
    IF heatmap_data_points[1].op = "predictions" THEN predictions ELSE current_conditions

\* The stored document has both coordinates, as numbers or as numeric text.
HasCoordinates(doc) ==
    LET loc == IF heatmap_data_points[1].op = "predictions" THEN doc.location_info ELSE doc.location
    IN  /\ loc # None
        /\ loc[1].latitude # None /\ loc[1].latitude[1].k \in {"num", "numstr"}
        /\ loc[1].longitude # None /\ loc[1].longitude[1].k \in {"num", "numstr"}

\* A document with nothing wrong with it.
WellFormed(doc) ==
    IF heatmap_data_points[1].op = "predictions"
    THEN doc.other_fields_valid /\ HasCoordinates(doc)
    ELSE /\ HasCoordinates(doc) /\ doc.location[1].dict
         /\ doc.external_data_details = Some([dict |-> TRUE, aqi_indexes |-> Some(<<GoodIdx>>)])

GivesNumber(cell) == cell # None /\ cell[1].k \in {"num", "numstr"}

\* The entries of aqi_indexes that carry the display name "universal aqi" in any case.
UniversalEntries(entries) ==
    {n \in 1..Len(entries) :
        /\ entries[n].dict
        /\ entries[n].display_name # None
        /\ display_name_lower(entries[n].display_name[1]) = "universal aqi"}

\* The cell the stated order of preference picks: (a), else (b), else (c), else none.
PreferredAqi(doc) ==
    LET e == doc.external_data_details
        entries == IF e = None \/ ~e[1].dict \/ e[1].aqi_indexes = None THEN <<>> ELSE e[1].aqi_indexes[1]
        u == UniversalEntries(entries)
        a == {n \in u : GivesNumber(entries[n].aqi)}
    IN  IF a # {} THEN entries[CHOOSE n \in a : \A m \in a : n <= m].aqi
        ELSE IF entries = <<>> \/ ~entries[1].dict THEN None
        ELSE IF GivesNumber(entries[1].aqi) THEN entries[1].aqi
        ELSE IF GivesNumber(entries[1].aqi_value) THEN entries[1].aqi_value
        ELSE None

\* The point the stated order gives for a record with coordinates, if any.
PreferredPoint(doc) ==
    IF PreferredAqi(doc) = None THEN None
    ELSE Some([latitude |-> to_float(doc.location[1].latitude[1])[1],
               longitude |-> to_float(doc.location[1].longitude[1])[1],
               aqi |-> to_float(PreferredAqi(doc)[1])[1]])

\* C26: over raw-conditions records that all have coordinates, the aggregation
\* returns for each record the point whose aqi is (a) the aqi of the entry
\* displayed as "universal aqi", else (b) the first entry's aqi, else (c) the
\* first entry's aqi_value, and drops a record only when none of the three is a
\* number.
C26_AqiPreferenceOrder ==
    (/\ heatmap_data_points # None
     /\ heatmap_data_points[1].op = "current_conditions"
     /\ ~heatmap_data_points[1].raised
     /\ \A i \in 1..Len(current_conditions) :
            HasCoordinates(current_conditions[i]) /\ current_conditions[i].location[1].dict)
    => heatmap_data_points[1].points =
          PointsOf([i \in 1..Len(current_conditions) |-> PreferredPoint(current_conditions[i])])

\* The same order holds for the records save_current_conditions writes, whose
\* entries carry aqi_value only.
C26_SavedRecordsFollowOrder ==
    (/\ heatmap_data_points # None
     /\ heatmap_data_points[1].op = "current_conditions"
     /\ ~heatmap_data_points[1].raised
     /\ \A i \in 1..Len(current_conditions) :
            /\ HasCoordinates(current_conditions[i]) /\ current_conditions[i].location[1].dict
            /\ current_conditions[i].external_data_details
                  \in {Some([dict |-> TRUE, aqi_indexes |-> Some(<<model_dump_aqi_index(42)>>)]),
                       Some([dict |-> TRUE, aqi_indexes |-> Some(<<>>)])})
    => heatmap_data_points[1].points =
          PointsOf([i \in 1..Len(current_conditions) |-> PreferredPoint(current_conditions[i])])

\* ------------------------------------------------------------ claims: malformed date

\* Date strings that are not a date in the form YYYY-MM-DD.
MalformedDates == {"2025-02-30", "21/05/2025"}

C21_SaveFailureSurfaced ==
    (pc = "done" /\ prediction_result_obj # None) =>
        \/ /\ outcome = "ok"
           /\ returned # None
           /\ returned[1].id \in 1..Len(predictions)
           /\ predictions[returned[1].id] = returned[1].record
           /\ returned[1].record.predicted_category = prediction_result_obj[1].predicted_category
        \/ /\ outcome = "RuntimeError: Failed to save prediction"
           /\ returned = None
           /\ predictions = <<>>

\* Inference succeeded, the store refused the insert, and the caller got the error.
C21_Witness ==
    /\ pc = "done"
    /\ prediction_result_obj # None
    /\ outcome = "RuntimeError: Failed to save prediction"
    /\ returned = None
    /\ predictions = <<>>

\* C22: the input_data of every stored prediction is what the caller sent: each
\* pollutant as sent (absent where it was absent), the country and location as
\* sent, and the auto-fill flag; a pollutant that inference used with a value
\* other than the caller's is absent in input_data and has that value in
\* used_measurements.
C22_InputDataIsCallerInput ==
    \A i \in 1..Len(predictions) :
        LET rec == predictions[i]
        IN  /\ \A p \in Pollutants : rec.input_data.pollutants[p] = req[1].pollutants_data[p]
            /\ rec.input_data.country = req[1].location_data[1]
            /\ rec.input_data.loc = req[1].location_data[2]
            /\ rec.input_data.auto_fill_pollutants = req[1].auto_fill_missing
            /\ rec.input_data.date = req[1].prediction_date_str
            /\ \A p \in Pollutants :
                  final_pollutants[p] # req[1].pollutants_data[p] =>
                      /\ rec.input_data.pollutants[p] = None
                      /\ rec.used_measurements # None
                      /\ p \in DOMAIN rec.used_measurements[1].pollutants
                      /\ Some(rec.used_measurements[1].pollutants[p]) = final_pollutants[p]

\* A stored record whose pm25 was filled for inference and is absent in input_data.
C22_Witness ==
    /\ Len(predictions) = 1
    /\ req[1].pollutants_data["pm25"] = None
    /\ final_pollutants["pm25"] # None
    /\ predictions[1].input_data.pollutants["pm25"] = None
    /\ predictions[1].used_measurements # None
    /\ "pm25" \in DOMAIN predictions[1].used_measurements[1].pollutants

\* ------------------------------------------------------------ claims: concurrent cache

\* The documents the store applied for a key, in the order it applied them.
AppliedTo(k) == SelectSeq(applied, LAMBDA d : d.cache_key = k)

AllDone == \A i \in Procs : procs[i].pc = "done"

\* C25: under any interleaving of concurrent geocode_location calls on one key,
\* the entry of the key is always the whole document of one single save, namely
\* of the save the store applied last, and so it is once every call has ended;
\* a call that was answered from the cache returns the location of one save.
C25_LastWriterWins ==
    /\ \A k \in CacheKeys :
          LET sets == AppliedTo(k)
          IN  /\ (locations_cache[k] = None) <=> (sets = <<>>)
              /\ locations_cache[k] # None =>
                    /\ \E n \in 1..Len(sets) : locations_cache[k][1] = sets[n]
                    /\ locations_cache[k][1] = sets[Len(sets)]
              /\ AllDone /\ sets # <<>> => locations_cache[k] = Some(sets[Len(sets)])
    /\ \A i \in Procs :
          procs[i].pc = "done" /\ procs[i].geocoded = None /\ procs[i].result # None =>
              \E n \in 1..Len(applied) :
                  procs[i].result = CacheHit(Some(model_validate(applied[n].data)))

\* Two calls missed together and fetched different places; the store applied both
\* saves and the entry is the second one, which differs from the first.
C25_Witness ==
    /\ AllDone
    /\ Len(applied) = 2
    /\ applied[1].data # applied[2].data
    /\ applied[1].created_at < applied[2].created_at
    /\ \A k \in CacheKeys : locations_cache[k] = Some(applied[2])

\* ------------------------------------------------------------ claims: coordinates

\* C27: at every point of a prediction request the location context has both
\* coordinates or neither, and every location_info stored with a prediction has
\* both, whichever way the auto-fill went.
C27_CoordinatesTogether ==
    /\ location_context # None =>
          ((location_context[1].latitude = None) <=> (location_context[1].longitude = None))
    /\ \A n \in 1..Len(predictions) :
          predictions[n].location_info # None =>
              /\ predictions[n].location_info[1].latitude \in Int
              /\ predictions[n].location_info[1].longitude \in Int

\* The geocoder answered, the live reading failed, and the prediction was stored
\* with a location_info.
C27_Witness ==
    /\ pc = "done"
    /\ outcome = "ok"
    /\ external_aq_data = None
    /\ location_context[1].latitude # None
    /\ location_context[1].longitude # None
    /\ predictions # <<>>
    /\ predictions[Len(predictions)].location_info # None
    /\ predictions[Len(predictions)].used_measurements = None

\* ------------------------------------------------------------ claims: auto-fill side effects

\* A step taken inside _auto_fill_pollutants: the awaited geocoder or the
\* awaited live reading.
InAutoFill == pc \in {"geocode", "fetch"}

\* C28 as stated: a call to _auto_fill_pollutants leaves the caller's pollutant
\* set, the location context passed in and the prediction store as they were.
C28_AutoFillLeavesArgumentsAlone ==
    [][InAutoFill =>
          /\ initial_pollutants' = initial_pollutants
          /\ location_context' = location_context
          /\ predictions' = predictions]_vars

\* C28 amended: a call to _auto_fill_pollutants leaves the caller's pollutant
\* set and the prediction store as they were; of the location context passed in
\* it changes nothing but latitude, longitude, formatted_address and place_id,
\* and those only to the geocoder's answer when it awaited the geocoder and the
\* geocoder returned a location.
C28_AutoFillTouchesLocationOnly ==
    [][InAutoFill =>
          /\ initial_pollutants' = initial_pollutants
          /\ predictions' = predictions
          /\ location_context' # location_context =>
                /\ pc = "geocode"
                /\ geocoded_loc_details' # None
                /\ location_context'[1] =
                      [location_context[1] EXCEPT
                          !.latitude = Some(geocoded_loc_details'[1].latitude),
                          !.longitude = Some(geocoded_loc_details'[1].longitude),
                          !.formatted_address = Some(geocoded_loc_details'[1].formatted_address),
                          !.place_id = Some(geocoded_loc_details'[1].place_id)]]_vars

\* The call returned with filled pollutants: the context passed in now carries
\* the geocoder's coordinates, the caller's pollutant set is as it was sent and
\* no prediction has been stored.
C28_Witness ==
    /\ pc = "infer"
    /\ autofill_ret # None
    /\ autofill_ret[1].used # None
    /\ location_context[1].latitude # None
    /\ location_context[1].place_id # None
    /\ initial_pollutants = req[1].pollutants_data
    /\ final_pollutants # initial_pollutants
    /\ predictions = <<>>

\* ------------------------------------------------------------ claims: stray codes

\* C29: a live-reading entry whose code is none of the six pollutant names never
\* changes the pollutants used for inference, is never a key of the provenance
\* map, and does not by itself cause a provenance record: with a live reading
\* fetched, a pollutant differs from the caller's only if it was missing and the
\* reading has a value under its name, the provenance keys are among the six
\* names, and there is no provenance record when the reading has a value for
\* none of the missing pollutants.
C29_StrayCodesIgnored ==
    (AutoFillRequested /\ external_aq_data # None) =>
        /\ \A p \in Pollutants :
              final_pollutants[p] # initial_pollutants[p] => p \in Fillable(external_aq_data[1])
        /\ DOMAIN final_pollutants = Pollutants
        /\ used_measurements_info # None =>
              DOMAIN used_measurements_info[1].pollutants \subseteq Pollutants
        /\ Fillable(external_aq_data[1]) = {} => used_measurements_info = None

\* The part of C29 that holds: the pollutants used for inference are the six
\* fields, changed only where a missing one was filled under its own name.
C29_PollutantSetUntouched ==
    (AutoFillRequested /\ external_aq_data # None) =>
        /\ \A p \in Pollutants :
              final_pollutants[p] # initial_pollutants[p] => p \in Fillable(external_aq_data[1])
        /\ DOMAIN final_pollutants = Pollutants

\* ------------------------------------------------------------ claims: stored records

\* C30: in every stored prediction, a used_measurements record comes with a
\* location_info that has both coordinates, and a location_info comes only with
\* a request that asked for auto-fill and left at least one of the six
\* pollutants out.
C30_StoredRecordConsistent ==
    \A n \in 1..Len(predictions) :
        LET r == predictions[n]
        IN  /\ r.used_measurements # None =>
                  /\ r.location_info # None
                  /\ r.location_info[1].latitude \in Int
                  /\ r.location_info[1].longitude \in Int
            /\ r.location_info # None =>
                  /\ r.input_data.auto_fill_pollutants
                  /\ req[1].auto_fill_missing
                  /\ \E p \in Pollutants : r.input_data.pollutants[p] = None
                  /\ \E p \in Pollutants : req[1].pollutants_data[p] = None

\* A prediction was stored with both a provenance record and a location_info.
C30_Witness ==
    /\ predictions # <<>>
    /\ predictions[Len(predictions)].used_measurements # None
    /\ predictions[Len(predictions)].location_info # None
    /\ predictions[Len(predictions)].input_data.auto_fill_pollutants
    /\ \E p \in Pollutants : predictions[Len(predictions)].input_data.pollutants[p] = None

\* ------------------------------------------------------------ claims: model columns

\* C23, as claimed: model input is produced only from an engineered batch that
\* has every column of the trained schema; a batch lacking one (here dayofweek
\* and is_weekend, the columns engineering can leave out) produces none.
C23_MissingColumnsFatal ==
    Engineered =>
        \A i \in 1..Len(FrameIn.rows) :
            LET df_fe == base_feature_engineering(FrameIn, le_country, le_loc, now)
            IN  df_fe[i].dayofweek # None /\ df_fe[i].is_weekend # None

\* ------------------------------------------------------------ claims: cache writes

\* C24: a geocode_location call changes the cache only when the API key is set,
\* the cache read gave nothing, and the live geocoder returned a place with
\* coordinates; the change is then the entry of the call's own key, holding that
\* place. A call that hit the cache, had no key, or got an empty, coordinate-less
\* or failed live answer leaves every entry as it was.
C24_CacheWrittenOnlyAfterLiveSuccess ==
    [][(lastOp'.op = "geocode" /\ locations_cache' # locations_cache) =>
          LET key == _generate_geocode_cache_key(lastOp'.pair[1], lastOp'.pair[2])
          IN  /\ settings.GOOGLE_MAPS_API_KEY
              /\ ~lastOp'.getOk \/ locations_cache[key] = None
              /\ lastOp'.live
              /\ lastOp'.result # None
              /\ lastOp'.result[1].source_api = "google_places_api"
              /\ lastOp'.result[1].latitude \in Int /\ lastOp'.result[1].longitude \in Int
              /\ \A k \in CacheKeys \ {key} : locations_cache'[k] = locations_cache[k]
              /\ locations_cache'[key] # None
              /\ locations_cache'[key][1].expireAt = Some(now + DefaultTtl)]_vars

\* A call that hit a stored entry after the clock had moved: the entry is as it was.
C24_Witness ==
    /\ lastOp.op = "geocode"
    /\ lastOp.result # None
    /\ ~lastOp.live
    /\ lastOp.held # None
    /\ now > 0
    /\ \E k \in CacheKeys : locations_cache[k] # None /\ locations_cache[k][1].created_at < now

====
